---- MODULE Spec2Model ----
(***************************************************************************)
(* FluxDNS request processing engine: the plugin chain executor            *)
(* (src/core/plugin-chain.js), the request context (src/core/context.js)   *)
(* and the built-in plugins kept in src/plugins/cache.js (cache, forward,  *)
(* response modifier).                                                     *)
(*                                                                         *)
(* JavaScript values are represented as follows.  A value that the code    *)
(* only tests for truthiness (if_matched, if_not_matched, metadata         *)
(* cacheKey) is a string and "" stands for undefined.  An optional number  *)
(* is a sequence of length 0 (undefined / null) or 1.  Response bodies are *)
(* opaque strings and "null" is the null response.                         *)
(***************************************************************************)
EXTENDS Integers, Sequences, FiniteSets, TLC

VARIABLES plugins, ctx, pc, idx, running, hist, cacheStore, pendingPuts, reqNo,
          dataCache, now, env, loads, uploads,
          lb, subs, clock,
          request, reply, concurrent,
          input, output

chainVars == <<plugins, ctx, pc, idx, running, hist, cacheStore, pendingPuts, reqNo>>

loaderVars == <<dataCache, now, env, loads, uploads>>

balancerVars == <<lb, subs, clock>>

workerVars == <<request, reply, concurrent>>

callVars == <<input, output>>

vars == <<chainVars, loaderVars, balancerVars, workerVars, callVars>>

(* ------------------------------ bounds --------------------------------- *)

MaxSteps == 3

MaxBuiltin == 3

MaxRequests == 2

\* Data-loader lookups, clock ticks and uploads in one run.
MaxLoads == 2

\* Lookups in a run with clearCache calls.
MaxLookups == 3

\* Questions and answer records in a DNS message.
MaxQuestions == 2

MaxAnswers == 1

MaxTicks == 2

MaxUploads == 1

\* Upstreams of a load balancer, and clock ticks while it runs.
MaxUpstreams == 2

MaxClock == 3

\* Bytes of the message of a request to the worker.
MaxBytes == 2

\* Patterns of a matcher step.
MaxPatterns == 1

\* Requests in flight at the same time.
MaxInflight == 2

(* ------------------------------ values --------------------------------- *)

Undefined == ""

NullResponse == "null"

None == <<>>

Some(v) == <<v>>

Range(s) == {s[k] : k \in 1..Len(s)}

\* Configured tags of the steps, by position (tags are unique per chain).
TagNames == <<"s1", "s2", "s3", "s4", "s5", "s6">>

StepTag(i) == TagNames[i]

\* Tags that if_matched / if_not_matched may reference.
CondTags == {StepTag(1), StepTag(2)}

DEFAULT_TTL == 300

NXDOMAIN == 3

\* What a handler registered with registerPlugin may do when it settles:
\* return true or false, or raise an Error, a value without a message
\* property (a string), or undefined / null.
Results == {"true", "false", "throwError", "throwString", "throwNullish"}

Raised(r) == r \in {"throwError", "throwString", "throwNullish"}

(* ------------------------------ context -------------------------------- *)

\* A DNS message as a JavaScript object: its bytes, and whether the object
\* is a view with a buffer property (a typed array) or the ArrayBuffer
\* itself, as fromRequest produces it.
ArrayBuffer(bytes) == [view |-> FALSE, bytes |-> bytes]

TypedArray(bytes) == [view |-> TRUE, bytes |-> bytes]

NoMessage == ArrayBuffer(<<>>)

\* Keys of metadata.timings.  The elapsed time stored under a key is not
\* modelled; the map records how many times each key has been assigned, and
\* a key is present iff its count is positive.
TimingKeys == Range(TagNames) \cup {"start", "bypass_cache"}

\* new DnsContext(request, dnsMessage, jsonQuery)
NewContext(q) ==
  [ query         |-> q,
    dnsMessage    |-> q.dns,
    response      |-> NullResponse,
    error         |-> None,
    resolved      |-> FALSE,
    tags          |-> <<>>,
    timings       |-> [k \in TimingKeys |-> IF k = "start" THEN 1 ELSE 0],
    errorsDefined |-> FALSE,
    errors        |-> <<>>,
    hooks         |-> 0,
    cacheKey      |-> None,
    cacheTtl      |-> None,
    upstream      |-> Undefined,
    upstreamError |-> Undefined ]

getQueryDomain(c) == IF c.query.json /\ c.query.name # Undefined
                     THEN c.query.name ELSE "example.com"

getQueryType(c) == IF c.query.json
                   THEN (IF c.query.type # 0 THEN c.query.type ELSE 1)
                   ELSE 1

hasTag(c, t) == t \in Range(c.tags)

addTag(c, t) == IF t \in Range(c.tags) THEN c
                ELSE [c EXCEPT !.tags = Append(@, t)]

setError(c, rcode) == [c EXCEPT !.error = Some(rcode)]

\* DnsContext.prototype.setResponse
baseSetResponse(c, bytes) == [c EXCEPT !.response = bytes, !.resolved = TRUE]

(* ----------------------------- HTTP boundary --------------------------- *)

REFUSED == 5

\* Characters of a base64 text are numbers: 0..61 are the letters and digits,
\* which stand for the same six bits in both alphabets; 62 and 63 are "+" and
\* "/" of the standard alphabet; the following are "-", "_" and "=".
Minus == 64

Underscore == 65

Pad == 66

\* Byte strings of up to n bytes over the given byte values.
RECURSIVE ByteStrings(_, _)
ByteStrings(B, n) ==
  IF n = 0 THEN {<<>>}
  ELSE ByteStrings(B, n - 1)
         \cup {Append(b, x) : b \in {y \in ByteStrings(B, n - 1) : Len(y) = n - 1},
                              x \in B}

\* btoa(binary)
RECURSIVE btoa(_)
btoa(b) ==
  IF Len(b) = 0 THEN <<>>
  ELSE IF Len(b) = 1 THEN <<b[1] \div 4, (b[1] % 4) * 16, Pad, Pad>>
  ELSE IF Len(b) = 2
  THEN <<b[1] \div 4, (b[1] % 4) * 16 + b[2] \div 16, (b[2] % 16) * 4, Pad>>
  ELSE <<b[1] \div 4, (b[1] % 4) * 16 + b[2] \div 16,
         (b[2] % 16) * 4 + b[3] \div 64, b[3] % 64>>
         \o btoa(SubSeq(b, 4, Len(b)))

\* .replace(/=+$/, "")
RECURSIVE Unpadded(_)
Unpadded(t) ==
  IF Len(t) > 0 /\ t[Len(t)] = Pad THEN Unpadded(SubSeq(t, 1, Len(t) - 1)) ELSE t

\* arrayBufferToBase64Url(buffer)
arrayBufferToBase64Url(b) ==
  LET t == btoa(b)
  IN  Unpadded([k \in 1..Len(t) |-> IF t[k] = 62 THEN Minus
                                    ELSE IF t[k] = 63 THEN Underscore ELSE t[k]])

\* The bytes that a run of sextets stands for; the bits left over at the end
\* are dropped.
RECURSIVE BytesOfSextets(_)
BytesOfSextets(t) ==
  IF Len(t) < 2 THEN <<>>
  ELSE IF Len(t) = 2 THEN <<t[1] * 4 + t[2] \div 16>>
  ELSE IF Len(t) = 3
  THEN <<t[1] * 4 + t[2] \div 16, (t[2] % 16) * 16 + t[3] \div 4>>
  ELSE <<t[1] * 4 + t[2] \div 16, (t[2] % 16) * 16 + t[3] \div 4,
         (t[3] % 4) * 64 + t[4]>>
         \o BytesOfSextets(SubSeq(t, 5, Len(t)))

\* atob(text): up to two "=" are dropped from a text whose length is a
\* multiple of four; a text of length 4k + 1, or with a character outside the
\* standard alphabet, raises InvalidCharacterError.
atob(text) ==
  LET n    == Len(text)
      cut  == IF n % 4 = 0 /\ n > 0 /\ text[n] = Pad
              THEN (IF text[n - 1] = Pad THEN 2 ELSE 1) ELSE 0
      data == SubSeq(text, 1, n - cut)
  IN  IF Len(data) % 4 = 1 \/ \E k \in 1..Len(data) : data[k] \notin 0..63
      THEN [ok |-> FALSE, bytes |-> <<>>]
      ELSE [ok |-> TRUE, bytes |-> BytesOfSextets(data)]

\* A request to the worker: the method, the path, the dns query parameter
\* (absent, or its text), whether a name parameter is present, the
\* Content-Type header, the body (GET carries none), and whether the body is
\* a JSON object with a name.
NewRequestRecord(method, path, dns, name, contentType, body, jsonName) ==
  [ method |-> method, path |-> path, dns |-> dns, name |-> name,
    contentType |-> contentType, body |-> body, jsonName |-> jsonName ]

\* The context of a request that carries a binary message.
BinaryContext(bytes) ==
  NewContext([name |-> Undefined, type |-> 0, json |-> FALSE,
              dns |-> ArrayBuffer(bytes)])

\* DnsContext.fromJsonRequest(request): request.json() rejects for a request
\* without a body, and a JSON value without a name is refused.
fromJsonRequest(req) ==
  IF req.body = None \/ ~req.jsonName THEN None
  ELSE Some(NewContext([name |-> "a.com", type |-> 1, json |-> TRUE,
                        dns |-> ArrayBuffer(req.body[1])]))

\* DnsContext.fromRequest(request): the context, or null.
fromRequest(req) ==
  IF req.method = "GET"
  THEN IF req.dns # None /\ req.dns[1] # <<>>
       THEN IF atob(req.dns[1]).ok
            THEN Some(BinaryContext(atob(req.dns[1]).bytes)) ELSE None
       ELSE IF req.name THEN fromJsonRequest(req)
       ELSE None
  ELSE IF req.method = "POST" THEN Some(BinaryContext(req.body[1]))
  ELSE None

Reply(status, kind, body) == Some([status |-> status, kind |-> kind, body |-> body])

\* this.error as a condition: null and 0 are falsy.
ErrorSet(c) == c.error # None /\ c.error[1] # 0

\* DnsContext.prototype.buildResponse()
buildResponse(c, req) ==
  IF ~c.resolved /\ ~ErrorSet(c) THEN Reply(500, "text", NullResponse)
  ELSE IF ErrorSet(c)
  THEN IF c.resolved
       THEN Reply(IF c.error[1] = REFUSED THEN 502 ELSE 500, "text", NullResponse)
       ELSE Reply(500, "text", NullResponse)
  ELSE IF req.name \/ c.query.json THEN Reply(200, "json", c.response)
  ELSE Reply(200, "binary", c.response)

WorkerIdle ==
  /\ request = NewRequestRecord("GET", "/dns-query", None, FALSE, Undefined, None, FALSE)
  /\ reply = None
  /\ concurrent = <<>>

\* No utility function has been called.
CallIdle ==
  /\ input = None
  /\ output = None

(* ------------------------------ data loader ---------------------------- *)

Families == {"domains", "ips", "hosts"}

\* Cache TTL (30 minutes), in milliseconds.
CACHE_TTL == 1800000

\* Date.now() is observed at multiples of a quarter of an hour.
TickMs == CACHE_TTL \div 2

\* Keys of the KV namespace, `${fileType}/${fileName}`.
KvKeys == {"domains/blocked"}

FileTypeOf(k) == "domains"

\* A stored file is a sequence of lines and a line the sequence of its
\* whitespace-separated tokens; "#" starts a comment.
Texts ==
  { << <<"a.com">>, <<"#", "note">>, <<"1.1.1.1", "B.org", "#", "note">>, <<>>,
       <<"2.2.2.2", "b.org", "c.net">> >> }

\* The text of "": a single empty line.
EmptyText == << <<>> >>

\* line.replace(/#.*$/, "").trim()
Uncomment(line) ==
  LET hashes == {k \in 1..Len(line) : line[k] = "#"}
  IN  IF hashes = {} THEN line
      ELSE SubSeq(line, 1, (CHOOSE k \in hashes : \A j \in hashes : k <= j) - 1)

parseDomainList(text) == {Uncomment(text[k]) : k \in 1..Len(text)} \ {<<>>}

parseIPList(text) == {Uncomment(text[k]) : k \in 1..Len(text)} \ {<<>>}

toLowerCase(h) == IF h = "A.com" THEN "a.com"
                  ELSE IF h = "B.org" THEN "b.org" ELSE h

\* hosts[hostname] = ip
PutHost(hosts, hostname, ip) ==
  [h \in DOMAIN hosts \cup {hostname} |-> IF h = hostname THEN ip ELSE hosts[h]]

RECURSIVE HostsOfParts(_, _, _)
HostsOfParts(hosts, parts, i) ==
  IF i > Len(parts) THEN hosts
  ELSE HostsOfParts(PutHost(hosts, toLowerCase(parts[i]), parts[1]), parts, i + 1)

RECURSIVE HostsOfLines(_, _, _)
HostsOfLines(hosts, text, k) ==
  IF k > Len(text) THEN hosts
  ELSE LET parts == Uncomment(text[k])
       IN  HostsOfLines(IF Len(parts) < 2 THEN hosts
                        ELSE HostsOfParts(hosts, parts, 2), text, k + 1)

parseHostsFile(text) == HostsOfLines(<<>>, text, 1)

\* The parser each loader applies to `text || ""`.
Parse(f, stored) ==
  LET text == IF stored = None THEN EmptyText ELSE stored[1]
  IN  CASE f = "domains" -> parseDomainList(text)
        [] f = "ips"     -> parseIPList(text)
        [] f = "hosts"   -> parseHostsFile(text)

\* Faulty variant: an entry is still served at the instant it expires.
MutIsFresh(e, t) == e # None /\ t <= e[1].expiry

\* cacheEntry && Date.now() < cacheEntry.expiry
IsFresh(e, t) == e # None /\ t < e[1].expiry

CacheEntry(data, t) == Some([data |-> data, expiry |-> t + CACHE_TTL])

\* Faulty variant: on failure the loaders hand back a list that is not empty.
MutLoadFailed(f) == IF f = "hosts" THEN PutHost(<<>>, "a.com", "1.1.1.1")
                    ELSE {<<"a.com">>}

\* What the catch block of each loader returns: new Set(), or {} for hosts.
LoadFailed(f) == IF f = "hosts" THEN <<>> ELSE {}

\* A lookup: the loader called and its key, what it found in the cache map
\* (nothing, an expired entry, a fresh one), the number of DATA_KV.get calls
\* it made, the text get resolved with, how the lookup was served, what it
\* returned, and the lookups that were suspended in their await when it
\* started.
NewLoad ==
  [ st |-> "new", family |-> "domains", key |-> "domains/blocked", seen |-> "none",
    calls |-> 0, text |-> None, served |-> "none", result |-> None,
    inflight |-> {} ]

\* env.DATA_KV: no binding, or a namespace.
Bound == env.DATA_KV # None

KvValue(k) == env.DATA_KV[1][k]

\* env of a worker: without the DATA_KV binding, or with an empty namespace.
Envs == {[DATA_KV |-> None], [DATA_KV |-> Some([k \in KvKeys |-> None])]}

\* The loader after module load in the worker environment e.
LoaderAt(e) ==
  /\ dataCache = [f \in Families |-> [k \in KvKeys |-> None]]
  /\ now = 0
  /\ env = e
  /\ loads = [l \in 1..MaxLoads |-> NewLoad]
  /\ uploads = [count |-> 0, clearing |-> {}]

LoaderIdle == LoaderAt([DATA_KV |-> None])

\* loadDomainList / loadIPList / loadHostsFile up to the await, or to the
\* return when no call is made.
LoadStart ==
  /\ \E l \in DOMAIN loads, f \in Families, k \in KvKeys :
       /\ loads[l].st = "new"
       /\ l > 1 => loads[l - 1].st # "new"
       /\ LET e  == dataCache[f][k]
              ld == [NewLoad EXCEPT !.family = f, !.key = k,
                                    !.seen = IF e = None THEN "absent"
                                             ELSE IF IsFresh(e, now) THEN "fresh"
                                             ELSE "expired",
                                    !.inflight = {m \in DOMAIN loads :
                                       loads[m].st \in {"awaiting", "fetched"}}]
          IN  IF IsFresh(e, now)
              THEN /\ loads' = [loads EXCEPT ![l] =
                        [ld EXCEPT !.st = "returned", !.served = "cache",
                                   !.result = Some(e[1].data)]]
                   /\ UNCHANGED dataCache
              ELSE IF Bound
              THEN /\ loads' = [loads EXCEPT ![l] =
                        [ld EXCEPT !.st = "awaiting", !.calls = 1]]
                   /\ UNCHANGED dataCache
              ELSE /\ loads' = [loads EXCEPT ![l] =
                        [ld EXCEPT !.st = "returned", !.served = "parsed",
                                   !.result = Some(Parse(f, None))]]
                   /\ dataCache' = [dataCache EXCEPT ![f][k] =
                                      CacheEntry(Parse(f, None), now)]
  /\ UNCHANGED <<now, env, uploads>>
  /\ UNCHANGED <<chainVars, balancerVars, workerVars, callVars>>

\* Faulty variant: the catch block caches the empty value it returns.
MutKvGetSettle ==
  /\ \E l \in DOMAIN loads :
       /\ loads[l].st = "awaiting"
       /\ \/ /\ loads' = [loads EXCEPT ![l].st = "fetched",
                                        ![l].text = KvValue(loads[l].key)]
             /\ UNCHANGED dataCache
          \/ /\ loads' = [loads EXCEPT ![l].st = "returned", ![l].served = "failed",
                                        ![l].result = Some(LoadFailed(loads[l].family))]
             /\ dataCache' = [dataCache EXCEPT ![loads[l].family][loads[l].key] =
                                CacheEntry(LoadFailed(loads[l].family), now)]
  /\ UNCHANGED <<now, env, uploads>>
  /\ UNCHANGED <<chainVars, balancerVars, workerVars, callVars>>

\* DATA_KV.get(key) reads the namespace and resolves, or rejects; on a
\* rejection the catch block returns the empty value.
KvGetSettle ==
  /\ \E l \in DOMAIN loads :
       /\ loads[l].st = "awaiting"
       /\ \/ loads' = [loads EXCEPT ![l].st = "fetched", ![l].text = KvValue(loads[l].key)]
          \/ loads' = [loads EXCEPT ![l].st = "returned", ![l].served = "failed",
                                    ![l].result = Some(LoadFailed(loads[l].family))]
  /\ UNCHANGED <<dataCache, now, env, uploads>>
  /\ UNCHANGED <<chainVars, balancerVars, workerVars, callVars>>

\* Faulty variant: the resumed loader returns without caching what it parsed.
MutLoadResume ==
  /\ \E l \in DOMAIN loads :
       /\ loads[l].st = "fetched"
       /\ LET d == Parse(loads[l].family, loads[l].text)
          IN  loads' = [loads EXCEPT ![l].st = "returned", ![l].served = "parsed",
                                    ![l].result = Some(d)]
  /\ UNCHANGED <<dataCache, now, env, uploads>>
  /\ UNCHANGED <<chainVars, balancerVars, workerVars, callVars>>

\* The loader resumes after the await: parse, cache, return.
LoadResume ==
  /\ \E l \in DOMAIN loads :
       /\ loads[l].st = "fetched"
       /\ LET d == Parse(loads[l].family, loads[l].text)
          IN  /\ dataCache' = [dataCache EXCEPT ![loads[l].family][loads[l].key] =
                                 CacheEntry(d, now)]
              /\ loads' = [loads EXCEPT ![l].st = "returned", ![l].served = "parsed",
                                        ![l].result = Some(d)]
  /\ UNCHANGED <<now, env, uploads>>
  /\ UNCHANGED <<chainVars, balancerVars, workerVars, callVars>>

Tick ==
  /\ now < MaxTicks * TickMs
  /\ now' = now + TickMs
  /\ UNCHANGED <<dataCache, env, loads, uploads>>
  /\ UNCHANGED <<chainVars, balancerVars, workerVars, callVars>>

\* Faulty variant: every family is cleared, whatever the type.
MutClearCache(cache, type) ==
  [f \in Families |-> [k \in KvKeys |-> None]]

\* clearCache(type)
clearCache(cache, type) ==
  [f \in Families |-> IF type = "all" \/ type = f
                      THEN [k \in KvKeys |-> None] ELSE cache[f]]

\* The upload handler: await env.DATA_KV.put(kvKey, fileContent) ...
UploadPut ==
  /\ Bound
  /\ uploads.count < MaxUploads
  /\ \E k \in KvKeys, t \in Texts :
       /\ env' = [env EXCEPT !.DATA_KV[1][k] = Some(t)]
       /\ uploads' = [count |-> uploads.count + 1,
                      clearing |-> uploads.clearing \cup {FileTypeOf(k)}]
  /\ UNCHANGED <<dataCache, now, loads>>
  /\ UNCHANGED <<chainVars, balancerVars, workerVars, callVars>>

\* ... then clearCache(fileType).
UploadClear ==
  /\ \E f \in uploads.clearing :
       /\ dataCache' = clearCache(dataCache, f)
       /\ uploads' = [uploads EXCEPT !.clearing = @ \ {f}]
  /\ UNCHANGED <<now, env, loads>>
  /\ UNCHANGED <<chainVars, balancerVars, workerVars, callVars>>

\* The arguments clearCache is called with; without one, type = "all".
ClearTypes == Families \cup {"all"}

\* A call of the exported clearCache(type).
ClearCacheCall(type) ==
  /\ dataCache' = clearCache(dataCache, type)
  /\ UNCHANGED <<now, env, loads, uploads>>
  /\ UNCHANGED <<chainVars, balancerVars, workerVars, callVars>>

ClearCache == \E type \in ClearTypes : ClearCacheCall(type)

(* ----------------------------- load balancer --------------------------- *)

\* parallel_timeout = 2000 (milliseconds)
PARALLEL_TIMEOUT == 2000

\* The clock is observed every half parallel_timeout.
ClockStep == PARALLEL_TIMEOUT \div 2

SERVFAIL == 2

Strategies == {"random", "parallel", "fallback", "unknown"}

\* The names in args.upstreams, by position.
UpstreamName(i) == StepTag(i)

\* The response bytes the handler of upstream i produces.
BodyOf(i) == <<"r1", "r2", "r3", "r4">>[i]

\* What a handler found in global.plugins may do with the context it is
\* given before it settles: assign response and resolved and return true
\* ("answer") or false ("answerQuietly"); assign error and
\* metadata.upstreamError and return false; return true without touching the
\* context; push a tag onto metadata.tags and return false; call
\* ctx.setResponse and return true; raise.  A handler may also never settle.
Behaviours ==
  {"answer", "answerQuietly", "fail", "claim", "tag", "setResponse", "raise"}

ReturnOf(b) == IF b \in {"answer", "claim", "setResponse"} THEN "true"
               ELSE IF b = "raise" THEN "raise" ELSE "false"

\* Assignments to the properties of the object the handler was given.
Assigned(t, b, i) ==
  IF b \in {"answer", "answerQuietly"}
  THEN [t EXCEPT !.response = BodyOf(i), !.resolved = TRUE]
  ELSE IF b = "fail" THEN [t EXCEPT !.error = Some(SERVFAIL),
                                    !.upstreamError = "message"]
  ELSE t

\* { ...ctx, dnsMessage, resolved: false, metadata: { ...ctx.metadata } }: the
\* own properties of ctx and of ctx.metadata are copied; the arrays and
\* objects that metadata refers to (tags, timings, errors) are not, and
\* neither are the methods of the prototype.
CloneOf(c) ==
  [ response |-> c.response, error |-> c.error, resolved |-> FALSE,
    upstream |-> c.upstream, upstreamError |-> c.upstreamError ]

NoClone == CloneOf(NewContext([name |-> "a.com", type |-> 1, json |-> TRUE, dns |-> NoMessage]))

NewSub == [ st |-> "idle", how |-> "none", clone |-> NoClone,
            timer |-> "none", promise |-> "none" ]

\* The configuration of the plugin and its progress: the upstreams that
\* global.plugins knows, the program position, the position in the upstream
\* list, the value returned, the upstreams invoked so far, the context as it
\* was when the plugin was called, and the sub-invocation whose promise was
\* the first to be resolved with success, with the clock value of that
\* moment.
NewBalancer(strategy, n, registered, c) ==
  [ strategy |-> strategy, n |-> n, registered |-> registered,
    pc |-> "idle", k |-> 0, result |-> "none", calls |-> <<>>,
    ctx0 |-> c, first |-> None ]

BalancerIdle ==
  /\ lb = NewBalancer("unknown", 0, {}, NewContext([name |-> "a.com", type |-> 1, json |-> TRUE, dns |-> NoMessage]))
  /\ subs = [i \in 1..MaxUpstreams |-> NewSub]
  /\ clock = 0

(* --------------------------- chain executor ---------------------------- *)

\* Lines 77-89 of execute: missing metadata members are created.
EnsureMetadata(c) == [c EXCEPT !.errorsDefined = TRUE]

\* Faulty variant: the if_not_matched test is inverted.
MutShouldSkip(p, c) ==
  \/ p.if_matched # Undefined /\ ~hasTag(c, p.if_matched)
  \/ p.if_not_matched # Undefined /\ ~hasTag(c, p.if_not_matched)

\* The two `continue` conditions at the top of the loop body.
ShouldSkip(p, c) ==
  \/ p.if_matched # Undefined /\ ~hasTag(c, p.if_matched)
  \/ p.if_not_matched # Undefined /\ hasTag(c, p.if_not_matched)

\* Faulty variant: plugin.execute(ctx) is not awaited.
MutAwaiting == FALSE

\* `await plugin.execute(ctx)`: the loop is suspended while the handler of
\* the current step has not settled.
Awaiting == running # {}

\* The statements after the await, when the handler returned `result`.
AfterReturn(c, i, result) ==
  LET c1 == [c EXCEPT !.timings[plugins[i].tag] = @ + 1]
  IN  IF result = "true" THEN addTag(c1, plugins[i].tag) ELSE c1

\* error.message of the raised value.
ErrorMessage(r) == IF r = "throwError" THEN "message" ELSE "undefined"

\* The catch block, for a raised value that has properties.
AfterRaise(c, i, r) ==
  [c EXCEPT !.errorsDefined = TRUE,
            !.errors = Append(@, [plugin |-> plugins[i].tag,
                                  error  |-> ErrorMessage(r)])]

\* Observation of a run, as the tests' spies record it (executionOrder in
\* tests/core/data-loader.test.js): which steps were reached, with which
\* tags, how each handler settled, what each cache lookup returned, how each
\* upstream fetch ended, the bytes the forwarder passed to setResponse, the
\* caches.default.put calls of this request and those of the requests before
\* it, and the put calls whose promise was rejected.
NewHist ==
  [ calls         |-> <<>>,
    status        |-> [i \in 1..Len(TagNames) |-> "unreached"],
    reachTags     |-> [i \in 1..Len(TagNames) |-> <<>>],
    outcome       |-> [i \in 1..Len(TagNames) |-> "none"],
    resolvedAfter |-> [i \in 1..Len(TagNames) |-> "unset"],
    lookup        |-> [i \in 1..Len(TagNames) |-> "none"],
    fetch         |-> [i \in 1..Len(TagNames) |-> "none"],
    forwarded     |-> NullResponse,
    puts          |-> {},
    earlierPuts   |-> {},
    rejectedPuts  |-> {} ]

StartExecute ==
  /\ pc = "idle"
  /\ ctx' = EnsureMetadata(ctx)
  /\ pc' = IF Len(plugins) = 0 THEN "done" ELSE "loop"
  /\ UNCHANGED <<plugins, idx, running, hist, cacheStore, pendingPuts, reqNo>>
  /\ UNCHANGED <<loaderVars, balancerVars, workerVars, callVars>>

\* A step whose conditions are not met is passed over.
Skip ==
  /\ pc = "loop"
  /\ ~Awaiting
  /\ ShouldSkip(plugins[idx], ctx)
  /\ hist' = [hist EXCEPT !.status[idx] = "skipped", !.reachTags[idx] = ctx.tags]
  /\ idx' = idx + 1
  /\ pc' = IF idx = Len(plugins) THEN "done" ELSE "loop"
  /\ UNCHANGED <<plugins, ctx, running, cacheStore, pendingPuts, reqNo>>
  /\ UNCHANGED <<loaderVars, balancerVars, workerVars, callVars>>

\* plugin.execute(ctx) is called: the handler starts.
Invoke ==
  /\ pc = "loop"
  /\ ~Awaiting
  /\ ~ShouldSkip(plugins[idx], ctx)
  /\ running' = running \cup {idx}
  /\ hist' = [hist EXCEPT !.calls = Append(@, idx),
                          !.status[idx] = "invoked",
                          !.reachTags[idx] = ctx.tags]
  /\ UNCHANGED <<plugins, ctx, pc, idx, cacheStore, pendingPuts, reqNo>>
  /\ UNCHANGED <<loaderVars, balancerVars, workerVars, callVars>>

\* The handler of step i settled with result r, leaving the context c: the
\* rest of the loop body runs.
Settle(i, c, r, h) ==
  /\ running' = running \ {i}
  /\ hist' = [h EXCEPT !.outcome[i] = r,
                          !.resolvedAfter[i] = IF c.resolved THEN "yes" ELSE "no"]
  /\ IF r = "throwNullish"
     THEN \* error.message raises a TypeError inside the catch block:
          \* execute itself rejects.
          /\ ctx' = c
          /\ pc' = "failed"
          /\ idx' = idx
     ELSE IF Raised(r)
     THEN /\ ctx' = AfterRaise(c, i, r)
          /\ idx' = i + 1
          /\ pc' = IF i = Len(plugins) THEN "done" ELSE "loop"
     ELSE /\ ctx' = AfterReturn(c, i, r)
          /\ idx' = i + 1
          /\ pc' = IF c.resolved \/ i = Len(plugins) THEN "done" ELSE "loop"

\* A handler registered by the embedding application: it may set
\* ctx.resolved, and it returns or raises.
CustomHandler ==
  /\ pc = "loop"
  /\ \E i \in running :
       /\ plugins[i].type = "custom"
       /\ \E resolve \in BOOLEAN, r \in Results :
            Settle(i, [ctx EXCEPT !.resolved = @ \/ resolve], r, hist)
  /\ UNCHANGED <<plugins, cacheStore, pendingPuts, reqNo>>
  /\ UNCHANGED <<loaderVars, balancerVars, workerVars, callVars>>

(* --------------------- chains of registered handlers -------------------- *)

CondValues == {Undefined} \cup CondTags

CustomStep(i, m, n) ==
  [ type |-> "custom", tag |-> StepTag(i), if_matched |-> m,
    if_not_matched |-> n, ttl |-> None, action |-> Undefined, rcode |-> None ]

CustomChains ==
  { [i \in 1..MaxSteps |-> CustomStep(i, f[i][1], f[i][2])] :
      f \in [1..MaxSteps -> CondValues \X CondValues] }

Keys == {<<"dns", d, t>> : d \in {"a.com", "example.com"}, t \in {1, 28}}

InitChain ==
  /\ plugins \in CustomChains
  /\ ctx = NewContext([name |-> "a.com", type |-> 1, json |-> TRUE, dns |-> NoMessage])
  /\ pc = "idle"
  /\ idx = 1
  /\ running = {}
  /\ hist = NewHist
  /\ cacheStore = [k \in Keys |-> None]
  /\ pendingPuts = {}
  /\ reqNo = 1
  /\ LoaderIdle
  /\ WorkerIdle /\ CallIdle
  /\ BalancerIdle

NextChain == StartExecute \/ Skip \/ Invoke \/ CustomHandler

SpecChain == InitChain /\ [][NextChain]_vars

(* -------------------------- built-in plugins --------------------------- *)

\* `dns-${domain}-${type}`
CacheKeyOf(c) == <<"dns", getQueryDomain(c), getQueryType(c)>>

\* args.ttl || 300
EffectiveTtl(args) == IF args.ttl = None \/ args.ttl[1] = 0 THEN DEFAULT_TTL
                      ELSE args.ttl[1]

\* The caches.default.put calls made by the wrappers that cache misses
\* installed around ctx.setResponse, when setResponse(bytes) is called.
HookPuts(c, bytes) ==
  IF c.hooks > 0 /\ c.cacheKey # None /\ bytes # NullResponse
  THEN {[key |-> c.cacheKey[1], body |-> bytes, maxAge |-> c.cacheTtl[1]]}
  ELSE {}

\* await caches.default.match(cacheKey), then cacheResponse.arrayBuffer()
Match(key, fail) ==
  IF fail THEN [status |-> "error", body |-> NullResponse]
  ELSE IF cacheStore[key] = None THEN [status |-> "absent", body |-> NullResponse]
  ELSE [status |-> "found", body |-> cacheStore[key][1].body]

\* Faulty variant: the hit stores the body but does not resolve the request.
MutExecuteCacheHit(c, args, m) ==
  [ ctx    |-> addTag([c EXCEPT !.response = m.body], "cache_hit"),
    result |-> "true", puts |-> {}, lookup |-> "found" ]

\* executeCache, lines 40-50: the entry was found.
executeCacheHit(c, args, m) ==
  [ ctx    |-> [addTag(baseSetResponse(c, m.body), "cache_hit")
                  EXCEPT !.resolved = TRUE],
    result |-> "true",
    puts   |-> HookPuts(c, m.body),
    lookup |-> "found" ]

\* executeCache, lines 52-78: no entry.
executeCacheMiss(c, args, m) ==
  [ ctx    |-> [addTag([c EXCEPT !.cacheKey = Some(CacheKeyOf(c)),
                                 !.cacheTtl = Some(EffectiveTtl(args))],
                       "cache_miss")
                  EXCEPT !.hooks = @ + 1],
    result |-> "false",
    puts   |-> {},
    lookup |-> "absent" ]

\* Faulty variant: the bypass_cache test is missing.
MutExecuteCacheNoBypass(c, args, m) ==
  IF m.status = "error"
  THEN [ctx |-> c, result |-> "false", puts |-> {}, lookup |-> "error"]
  ELSE IF m.status = "found" THEN executeCacheHit(c, args, m)
  ELSE executeCacheMiss(c, args, m)

\* executeCache(ctx, args); m is what the backend answers if it is asked.
executeCache(c, args, m) ==
  IF getQueryDomain(c) = Undefined \/ getQueryType(c) = 0
  THEN [ctx |-> c, result |-> "false", puts |-> {}, lookup |-> "nokey"]
  ELSE IF hasTag(c, "bypass_cache")
  THEN [ctx |-> addTag(c, "cache_bypassed"), result |-> "false", puts |-> {},
        lookup |-> "bypass"]
  ELSE IF m.status = "error"
  THEN [ctx |-> c, result |-> "false", puts |-> {}, lookup |-> "error"]
  ELSE IF m.status = "found" THEN executeCacheHit(c, args, m)
  ELSE executeCacheMiss(c, args, m)

DEFAULT_UPSTREAM == "https://doh.pub/dns-query"

\* How the upstream call fails: with a non-2xx status (the Error thrown at
\* line 442), with a network error (fetch rejects with a TypeError), or by
\* the timeout timer, controller.abort("DNS query timeout"), upon which fetch
\* rejects with the abort reason, the string itself.
FetchFailures == {"status", "network", "timeout"}

\* error.message of the value caught by executeForward; a string has no
\* message property.
UpstreamErrorMessage(kind) == IF kind = "timeout" THEN Undefined ELSE "message"

\* executeForward(ctx, args); up is the outcome of the fetch.
executeForward(c, args, up) ==
  IF up.ok
  THEN [ ctx    |-> [baseSetResponse(c, up.body) EXCEPT !.upstream = DEFAULT_UPSTREAM],
         result |-> "true",
         puts   |-> HookPuts(c, up.body),
         sent   |-> up.body ]
  ELSE [ ctx    |-> [c EXCEPT !.upstream = DEFAULT_UPSTREAM,
                              !.upstreamError = UpstreamErrorMessage(up.kind)],
         result |-> "false",
         puts   |-> {},
         sent   |-> NullResponse ]

\* The characters of the names, patterns and addresses that occur.
Chars(n) ==
  CASE n = "a.com"   -> <<"a", ".", "c", "o", "m">>
    [] n = "s.a.com" -> <<"s", ".", "a", ".", "c", "o", "m">>
    [] n = "ba.com"  -> <<"b", "a", ".", "c", "o", "m">>
    [] n = "b.org"   -> <<"b", ".", "o", "r", "g">>
    [] n = "*.a.com" -> <<"*", ".", "a", ".", "c", "o", "m">>
    [] n = "1.1.1.1" -> <<"1", ".", "1", ".", "1", ".", "1">>
    [] n = "2.2.2.2" -> <<"2", ".", "2", ".", "2", ".", "2">>
    [] n = "::1"     -> <<":", ":", "1">>
    [] n = "::2"     -> <<":", ":", "2">>

\* String.prototype.startsWith, endsWith, includes and slice, on characters.
StartsWith(t, p) == Len(p) <= Len(t) /\ SubSeq(t, 1, Len(p)) = p

EndsWith(t, p) == Len(p) <= Len(t) /\ SubSeq(t, Len(t) - Len(p) + 1, Len(t)) = p

Includes(t, p) ==
  \E k \in 0..(Len(t) - Len(p)) : SubSeq(t, k + 1, k + Len(p)) = p

Slice(t, n) == SubSeq(t, n + 1, Len(t))

\* The domains filter of executeResponseModifier (string patterns).
DomainFilterMatches(domains, queryDomain) ==
  \E k \in 1..Len(domains) :
    IF StartsWith(Chars(domains[k]), <<"*", ".">>)
    THEN /\ EndsWith(Chars(queryDomain), Slice(Chars(domains[k]), 2))
         /\ Len(Chars(queryDomain)) > Len(Slice(Chars(domains[k]), 2))
    ELSE domains[k] = queryDomain

\* const { ..., domains = [] } = args
ArgDomains(args) == IF "domains" \in DOMAIN args THEN args.domains ELSE <<>>

\* executeResponseModifier(ctx, args)
executeResponseModifier(c, args) ==
  IF args.action = "reject"
  THEN [ ctx |-> [addTag(setError(c, IF args.rcode = None THEN NXDOMAIN
                                     ELSE args.rcode[1]),
                         "response_rejected") EXCEPT !.resolved = TRUE],
         result |-> "true" ]
  ELSE IF args.action = "accept"
  THEN [ ctx |-> [addTag(c, "response_accepted") EXCEPT !.resolved = TRUE],
         result |-> "true" ]
  ELSE IF /\ Len(ArgDomains(args)) > 0
          /\ getQueryDomain(c) # Undefined
          /\ ~DomainFilterMatches(ArgDomains(args), getQueryDomain(c))
  THEN [ctx |-> c, result |-> "false"]
  ELSE IF c.response = NullResponse
  THEN [ctx |-> c, result |-> "false"]
  ELSE IF args.ttl # None
  THEN [ctx |-> addTag(c, "ttl_modified"), result |-> "true"]
  ELSE [ctx |-> c, result |-> "false"]

UpstreamBytes == {"r1", "r2"}

UpstreamOutcomes ==
  {[ok |-> TRUE, body |-> b, kind |-> "ok"] : b \in UpstreamBytes}
    \cup {[ok |-> FALSE, body |-> NullResponse, kind |-> k] : k \in FetchFailures}

ExecuteCache ==
  /\ pc = "loop"
  /\ \E i \in running :
       /\ plugins[i].type = "cache"
       /\ \E fail \in BOOLEAN :
            LET out == executeCache(ctx, plugins[i], Match(CacheKeyOf(ctx), fail))
            IN  /\ Settle(i, out.ctx, out.result,
                          [hist EXCEPT !.lookup[i] = out.lookup,
                                       !.puts = @ \cup out.puts])
                /\ pendingPuts' = pendingPuts \cup out.puts
  /\ UNCHANGED <<plugins, cacheStore, reqNo>>
  /\ UNCHANGED <<loaderVars, balancerVars, workerVars, callVars>>

ExecuteForward ==
  /\ pc = "loop"
  /\ \E i \in running :
       /\ plugins[i].type = "forward"
       /\ \E up \in UpstreamOutcomes :
            LET out == executeForward(ctx, plugins[i], up)
            IN  /\ Settle(i, out.ctx, out.result,
                          [hist EXCEPT !.fetch[i] = IF up.ok THEN "ok" ELSE "failed",
                                       !.forwarded = out.sent,
                                       !.puts = @ \cup out.puts])
                /\ pendingPuts' = pendingPuts \cup out.puts
  /\ UNCHANGED <<plugins, cacheStore, reqNo>>
  /\ UNCHANGED <<loaderVars, balancerVars, workerVars, callVars>>

ExecuteResponseModifier ==
  /\ pc = "loop"
  /\ \E i \in running :
       /\ plugins[i].type = "response_modifier"
       /\ LET out == executeResponseModifier(ctx, plugins[i])
          IN  Settle(i, out.ctx, out.result, hist)
  /\ UNCHANGED <<plugins, cacheStore, pendingPuts, reqNo>>
  /\ UNCHANGED <<loaderVars, balancerVars, workerVars, callVars>>

\* A handler that only decides whether its tag is added (true_plugin and
\* false_plugin of tests/core/data-loader.test.js).
Tagger ==
  /\ pc = "loop"
  /\ \E i \in running :
       /\ plugins[i].type = "tagger"
       /\ \E r \in {"true", "false"} : Settle(i, ctx, r, hist)
  /\ UNCHANGED <<plugins, cacheStore, pendingPuts, reqNo>>
  /\ UNCHANGED <<loaderVars, balancerVars, workerVars, callVars>>

\* The promise returned by caches.default.put is not awaited: the entry
\* reaches the backend at some later time.
CachePutSettle ==
  /\ \E p \in pendingPuts :
       /\ cacheStore' = [cacheStore EXCEPT ![p.key] =
                           Some([body |-> p.body, maxAge |-> p.maxAge])]
       /\ pendingPuts' = pendingPuts \ {p}
  /\ UNCHANGED <<plugins, ctx, pc, idx, running, hist, reqNo>>
  /\ UNCHANGED <<loaderVars, balancerVars, workerVars, callVars>>

\* Faulty variant: the rejection of the put reaches the forwarder's catch
\* block, as if the hook had awaited the put inside the try.
MutCachePutReject ==
  /\ \E p \in pendingPuts :
       /\ pendingPuts' = pendingPuts \ {p}
       /\ hist' = [hist EXCEPT !.rejectedPuts = @ \cup {p}]
       /\ ctx' = [ctx EXCEPT !.upstreamError = "message"]
  /\ UNCHANGED <<plugins, pc, idx, running, cacheStore, reqNo>>
  /\ UNCHANGED <<loaderVars, balancerVars, workerVars, callVars>>

\* The promise returned by caches.default.put is rejected: nothing is
\* stored, and nobody holds the promise.
CachePutReject ==
  /\ \E p \in pendingPuts :
       /\ pendingPuts' = pendingPuts \ {p}
       /\ hist' = [hist EXCEPT !.rejectedPuts = @ \cup {p}]
       /\ UNCHANGED ctx
  /\ UNCHANGED <<plugins, pc, idx, running, cacheStore, reqNo>>
  /\ UNCHANGED <<loaderVars, balancerVars, workerVars, callVars>>

\* A JSON query (the key is built from its name and type) and a binary
\* query (the context answers "example.com" and type 1 for it).
Queries ==
  { [name |-> "a.com", type |-> 28, json |-> TRUE, dns |-> NoMessage],
    [name |-> "b.org", type |-> 28, json |-> FALSE, dns |-> NoMessage] }

\* The next request arrives after the previous one was answered; it is run
\* through the same chain with a context of its own.
NewRequest ==
  /\ pc \in {"done", "failed"}
  /\ reqNo < MaxRequests
  /\ \E q \in Queries : ctx' = NewContext(q)
  /\ pc' = "idle"
  /\ idx' = 1
  /\ running' = {}
  /\ hist' = [NewHist EXCEPT !.earlierPuts = hist.earlierPuts \cup hist.puts]
  /\ reqNo' = reqNo + 1
  /\ UNCHANGED <<plugins, cacheStore, pendingPuts>>
  /\ UNCHANGED <<loaderVars, balancerVars, workerVars, callVars>>

BuiltinKinds ==
  {[type |-> "tagger", if_matched |-> Undefined, ttl |-> None,
    action |-> Undefined, rcode |-> None]}
  \cup {[type |-> "cache", if_matched |-> Undefined, ttl |-> t,
         action |-> Undefined, rcode |-> None] : t \in {None, Some(0), Some(60)}}
  \cup {[type |-> "forward", if_matched |-> m, ttl |-> None,
         action |-> Undefined, rcode |-> None] : m \in {Undefined, "bypass_cache"}}
  \cup {[type |-> "response_modifier", if_matched |-> Undefined, ttl |-> None,
         action |-> "accept", rcode |-> None]}
  \cup {[type |-> "response_modifier", if_matched |-> Undefined, ttl |-> None,
         action |-> "reject", rcode |-> None]}

BuiltinStep(k, i) ==
  [ type |-> k.type,
    tag  |-> IF k.type = "tagger" THEN "bypass_cache" ELSE StepTag(i),
    if_matched |-> k.if_matched, if_not_matched |-> Undefined,
    ttl |-> k.ttl, action |-> k.action, rcode |-> k.rcode ]

\* Chains of at most MaxBuiltin steps; configured tags are unique.
BuiltinChains ==
  UNION { { [i \in 1..n |-> BuiltinStep(f[i], i)] :
              f \in { g \in [1..n -> BuiltinKinds] :
                        Cardinality({i \in 1..n : g[i].type = "tagger"}) <= 1 } } :
          n \in 1..MaxBuiltin }

InitBuiltin ==
  /\ plugins \in BuiltinChains
  /\ ctx \in {NewContext(q) : q \in Queries}
  /\ pc = "idle"
  /\ idx = 1
  /\ running = {}
  /\ hist = NewHist
  /\ cacheStore = [k \in Keys |-> None]
  /\ pendingPuts = {}
  /\ reqNo = 1
  /\ LoaderIdle
  /\ WorkerIdle /\ CallIdle
  /\ BalancerIdle

NextBuiltin ==
  \/ StartExecute \/ Skip \/ Invoke
  \/ Tagger \/ ExecuteCache \/ ExecuteForward \/ ExecuteResponseModifier
  \/ CachePutSettle \/ NewRequest

SpecBuiltin == InitBuiltin /\ [][NextBuiltin]_vars

\* The chains [cache, forward], with a cache backend whose put may fail.
PutChains ==
  { <<BuiltinStep(c, 1), BuiltinStep(f, 2)>> :
      c \in {k \in BuiltinKinds : k.type = "cache"},
      f \in {k \in BuiltinKinds : k.type = "forward"} }

InitPut ==
  /\ plugins \in PutChains
  /\ ctx \in {NewContext(q) : q \in Queries}
  /\ pc = "idle"
  /\ idx = 1
  /\ running = {}
  /\ hist = NewHist
  /\ cacheStore = [k \in Keys |-> None]
  /\ pendingPuts = {}
  /\ reqNo = 1
  /\ LoaderIdle
  /\ WorkerIdle /\ CallIdle
  /\ BalancerIdle

NextPut ==
  \/ StartExecute \/ Skip \/ Invoke
  \/ ExecuteCache \/ ExecuteForward
  \/ CachePutSettle \/ CachePutReject \/ NewRequest

SpecPut == InitPut /\ [][NextPut]_vars

(* -------------------------- concurrent requests ------------------------ *)

\* Requests in flight at the same time: JSON queries, and a binary query
\* for b.org, type 28.
ConcurrentQueries ==
  { [name |-> "a.com", type |-> 1, json |-> TRUE, dns |-> NoMessage],
    [name |-> "a.com", type |-> 28, json |-> TRUE, dns |-> NoMessage],
    [name |-> "example.com", type |-> 1, json |-> TRUE, dns |-> NoMessage],
    [name |-> "b.org", type |-> 28, json |-> FALSE, dns |-> NoMessage] }

\* A request in flight: its own context, the step of the chain it has
\* reached, and the caches.default.put calls its context's hook made.
NewInFlight(q) == [ctx |-> NewContext(q), at |-> 1, puts |-> {}]

\* The (domain, type) pair a request asks for.
Asked(r) == <<concurrent[r].ctx.query.name, concurrent[r].ctx.query.type>>

\* The chains [cache, forward] without conditions.
ConcurrentChains ==
  {ch \in PutChains : ch[2].if_matched = Undefined}

\* Request r runs the loop body for the step it has reached, whose handler
\* returned `out`: tag, test of ctx.resolved, next step.
Advance(r, out) ==
  LET i == concurrent[r].at
      c == AfterReturn(IF i = 1 THEN EnsureMetadata(out.ctx) ELSE out.ctx,
                       i, out.result)
  IN  /\ concurrent' = [concurrent EXCEPT
                          ![r].ctx = c,
                          ![r].at = IF c.resolved THEN Len(plugins) + 1 ELSE i + 1,
                          ![r].puts = @ \cup out.puts]
      /\ pendingPuts' = pendingPuts \cup out.puts

\* The cache step of one request, while the others are suspended.
ConcurrentCache ==
  /\ \E r \in DOMAIN concurrent :
       /\ concurrent[r].at <= Len(plugins)
       /\ plugins[concurrent[r].at].type = "cache"
       /\ \E fail \in BOOLEAN :
            Advance(r, executeCache(concurrent[r].ctx, plugins[concurrent[r].at],
                                    Match(CacheKeyOf(concurrent[r].ctx), fail)))
  /\ UNCHANGED <<plugins, ctx, pc, idx, running, hist, cacheStore, reqNo>>
  /\ UNCHANGED <<request, reply>>
  /\ UNCHANGED <<loaderVars, balancerVars, callVars>>

\* The forward step of one request: its fetch settles and, on success,
\* ctx.setResponse runs with the hook of this request's context.
ConcurrentForward ==
  /\ \E r \in DOMAIN concurrent :
       /\ concurrent[r].at <= Len(plugins)
       /\ plugins[concurrent[r].at].type = "forward"
       /\ \E up \in UpstreamOutcomes :
            Advance(r, executeForward(concurrent[r].ctx, plugins[concurrent[r].at], up))
  /\ UNCHANGED <<plugins, ctx, pc, idx, running, hist, cacheStore, reqNo>>
  /\ UNCHANGED <<request, reply>>
  /\ UNCHANGED <<loaderVars, balancerVars, callVars>>

\* MaxInflight requests for pairwise different (domain, type) pairs arrive
\* together and share the chain and the cache backend.
InitConcurrent ==
  /\ plugins \in ConcurrentChains
  /\ ctx = NewContext([name |-> "a.com", type |-> 1, json |-> TRUE, dns |-> NoMessage])
  /\ pc = "idle"
  /\ idx = 1
  /\ running = {}
  /\ hist = NewHist
  /\ cacheStore = [k \in Keys |-> None]
  /\ pendingPuts = {}
  /\ reqNo = 1
  /\ LoaderIdle /\ BalancerIdle /\ CallIdle
  /\ request = NewRequestRecord("GET", "/dns-query", None, FALSE, Undefined, None, FALSE)
  /\ reply = None
  /\ concurrent \in {f \in [1..MaxInflight -> {NewInFlight(q) : q \in ConcurrentQueries}] :
                        \A r1, r2 \in 1..MaxInflight : r1 # r2 => f[r1] # f[r2]}

NextConcurrent == ConcurrentCache \/ ConcurrentForward \/ CachePutSettle

SpecConcurrent == InitConcurrent /\ [][NextConcurrent]_vars

(* ---------------------------- policy plugins --------------------------- *)

A == 1

MX == 15

AAAA == 28

\* One pattern of executeMatcher against the query name: exact, "*."
\* suffix, or contained text (string patterns).
PatternMatches(pattern, domain) ==
  \/ pattern = domain
  \/ /\ StartsWith(Chars(pattern), <<"*", ".">>)
     /\ EndsWith(Chars(domain), Slice(Chars(pattern), 1))
  \/ Includes(Chars(domain), Chars(pattern))

\* executeMatcher(ctx, args).  args.patterns holds the strings of
\* args.domains, args.patterns and args.domain in that order; args.qtype is
\* the `type` argument; args.types is carried by the configuration.
executeMatcher(c, args) ==
  LET domain  == getQueryDomain(c)
      type    == getQueryType(c)
      found   == \E k \in 1..Len(args.patterns) :
                   PatternMatches(args.patterns[k], domain)
      matched == IF args.inverse THEN ~found ELSE found
  IN  IF domain = Undefined THEN [ctx |-> c, result |-> "false"]
      ELSE IF args.qtype # None /\ args.qtype[1] # 0 /\ args.qtype[1] # type
      THEN [ctx |-> c, result |-> "false"]
      ELSE IF Len(args.patterns) = 0 THEN [ctx |-> c, result |-> "false"]
      ELSE IF ~matched THEN [ctx |-> c, result |-> "false"]
      ELSE IF args.action = "reject"
      THEN [ ctx |-> addTag([setError(c, IF args.rcode = None \/ args.rcode[1] = 0
                                          THEN NXDOMAIN ELSE args.rcode[1])
                               EXCEPT !.resolved = TRUE],
                            "matcher_rejected"),
             result |-> "true" ]
      ELSE [ctx |-> addTag(c, "matcher_accepted"), result |-> "true"]

\* normalizeDomain(domain): the names that occur are in lower case; a
\* trailing dot is removed.
normalizeDomain(domain) ==
  IF domain = "a.com." THEN "a.com" ELSE toLowerCase(domain)

\* ip.includes(':')
IsIPv6(ip) == Includes(Chars(ip), <<":">>)

\* ips.filter(...)
RECURSIVE FilterIps(_, _)
FilterIps(ips, queryType) ==
  IF ips = <<>> THEN <<>>
  ELSE LET keep == \/ queryType = A /\ ~IsIPv6(ips[1])
                   \/ queryType = AAAA /\ IsIPv6(ips[1])
       IN  (IF keep THEN <<ips[1]>> ELSE <<>>) \o FilterIps(Tail(ips), queryType)

\* generateMockResponse(dnsMessage, ips, ttl): the bytes of the query with
\* the QR bit set and ANCOUNT = ips.length; no record is appended.
MockResponses == <<"query+qr+ancount1", "query+qr+ancount2", "query+qr+ancount3">>

generateMockResponse(dnsMessage, ips) ==
  IF ~dnsMessage.view THEN [ok |-> FALSE, bytes |-> NullResponse]
  ELSE [ok |-> TRUE, bytes |-> MockResponses[Len(ips)]]

\* executeHosts(ctx, args); args.hosts maps names to lists of addresses.
executeHosts(c, args) ==
  LET queryDomain      == getQueryDomain(c)
      queryType        == getQueryType(c)
      normalizedDomain == normalizeDomain(queryDomain)
  IN  IF queryDomain = Undefined THEN [ctx |-> c, result |-> "false"]
      ELSE IF queryType # A /\ queryType # AAAA THEN [ctx |-> c, result |-> "false"]
      ELSE IF normalizedDomain \notin DOMAIN args.hosts
      THEN [ctx |-> c, result |-> "false"]
      ELSE LET filteredIps == FilterIps(args.hosts[normalizedDomain], queryType)
               made        == generateMockResponse(c.dnsMessage, filteredIps)
           IN  IF Len(filteredIps) = 0
               THEN IF args.passThrough THEN [ctx |-> c, result |-> "false"]
                    ELSE [ctx |-> setError(c, 0), result |-> "true"]
               ELSE IF ~made.ok THEN [ctx |-> c, result |-> "false"]
               ELSE [ ctx |-> addTag(baseSetResponse(c, made.bytes), "hosts_resolved"),
                      result |-> "true" ]

ExecuteMatcher ==
  /\ pc = "loop"
  /\ \E i \in running :
       /\ plugins[i].type = "matcher"
       /\ LET out == executeMatcher(ctx, plugins[i])
          IN  Settle(i, out.ctx, out.result, hist)
  /\ UNCHANGED <<plugins, cacheStore, pendingPuts, reqNo>>
  /\ UNCHANGED <<loaderVars, balancerVars, workerVars, callVars>>

ExecuteHosts ==
  /\ pc = "loop"
  /\ \E i \in running :
       /\ plugins[i].type = "hosts"
       /\ LET out == executeHosts(ctx, plugins[i])
          IN  Settle(i, out.ctx, out.result, hist)
  /\ UNCHANGED <<plugins, cacheStore, pendingPuts, reqNo>>
  /\ UNCHANGED <<loaderVars, balancerVars, workerVars, callVars>>

\* The arguments of the policy steps.
PolicyStep(i, type) ==
  [ type |-> type, tag |-> StepTag(i), if_matched |-> Undefined,
    if_not_matched |-> Undefined, ttl |-> None, action |-> Undefined,
    rcode |-> None, patterns |-> <<>>, qtype |-> None, types |-> None,
    inverse |-> FALSE, hosts |-> <<>>, passThrough |-> TRUE, domains |-> <<>> ]

Patterns == {"a.com", "*.a.com", "b.org"}

RECURSIVE PatternLists(_)
PatternLists(n) ==
  IF n = 0 THEN {<<>>}
  ELSE PatternLists(n - 1)
         \cup {Append(l, x) : l \in {y \in PatternLists(n - 1) : Len(y) = n - 1},
                              x \in Patterns}

MatcherSteps ==
  {[PolicyStep(1, "matcher") EXCEPT !.patterns = l, !.qtype = t, !.types = ts,
                                    !.inverse = inv, !.action = a, !.rcode = rc] :
     l \in PatternLists(MaxPatterns), t \in {None, Some(A)},
     ts \in {None, Some({AAAA})}, inv \in BOOLEAN,
     a \in {Undefined, "reject"}, rc \in {None, Some(0), Some(REFUSED)}}

\* A hosts entry with addresses of both families, one with a single family.
HostsMap ==
  [n \in {"a.com", "b.org"} |->
     IF n = "a.com" THEN <<"1.1.1.1", "::1", "2.2.2.2", "::2">> ELSE <<"1.1.1.1">>]

HostsSteps ==
  {[PolicyStep(1, "hosts") EXCEPT !.hosts = HostsMap, !.passThrough = pt] :
     pt \in BOOLEAN}

ModifierSteps(i) ==
  {[PolicyStep(i, "response_modifier") EXCEPT !.action = "modify", !.ttl = Some(60),
                                              !.domains = <<d>>] :
     d \in {"a.com", "*.a.com"}}

\* [matcher, forward], [hosts, forward], [forward, response_modifier] and
\* [response_modifier].
PolicyChains ==
  {<<m, PolicyStep(2, "forward")>> : m \in MatcherSteps \cup HostsSteps}
  \cup {<<PolicyStep(1, "forward"), m>> : m \in ModifierSteps(2)}
  \cup {<<m>> : m \in ModifierSteps(1)}

\* JSON queries; the message of the context is an ArrayBuffer, as
\* fromRequest makes it, or a typed array, as the tests make it.
PolicyQueries ==
  {[name |-> n, type |-> t, json |-> TRUE, dns |-> d] :
     n \in {"a.com", "s.a.com", "ba.com", "b.org"}, t \in {A, AAAA, MX},
     d \in {ArrayBuffer(<<1>>), TypedArray(<<1>>)}}

\* The context of a query, fresh, or holding a response while unresolved as
\* the contexts of tests/plugins/response-modifier.test.js do.
PolicyContexts ==
  {NewContext(q) : q \in PolicyQueries}
  \cup {[NewContext(q) EXCEPT !.response = "r1"] :
          q \in {x \in PolicyQueries : x.dns.view /\ x.type = A}}

InitPolicy ==
  /\ plugins \in PolicyChains
  /\ ctx \in PolicyContexts
  /\ pc = "idle"
  /\ idx = 1
  /\ running = {}
  /\ hist = NewHist
  /\ cacheStore = [k \in Keys |-> None]
  /\ pendingPuts = {}
  /\ reqNo = 1
  /\ LoaderIdle
  /\ WorkerIdle /\ CallIdle
  /\ BalancerIdle

NextPolicy ==
  \/ StartExecute \/ Invoke
  \/ ExecuteMatcher \/ ExecuteHosts \/ ExecuteForward \/ ExecuteResponseModifier

SpecPolicy == InitPolicy /\ [][NextPolicy]_vars

(* ------------------------------ DNS messages --------------------------- *)

NS == 2

CNAME == 5

PTR == 12

TXT == 16

\* Character codes of ".", " " and of the text "[compressed]".
DotChar == 46

SpaceChar == 32

CompressedText == <<91, 99, 111, 109, 112, 114, 101, 115, 115, 101, 100, 93>>

\* A buffer is a sequence of bytes and an offset counts from 0. A DataView
\* read outside the buffer throws a RangeError.
InBuffer(b, offset, n) == offset >= 0 /\ offset + n <= Len(b)

getUint8(b, offset) == b[offset + 1]

getUint16(b, offset) == b[offset + 1] * 256 + b[offset + 2]

\* An unsigned 32-bit value, hi * 2^16 + lo, kept as its two halves.
getUint32(b, offset) ==
  [hi |-> getUint16(b, offset), lo |-> getUint16(b, offset + 2)]

\* view.setUint16(offset, v)
setUint16(b, offset, v) ==
  [k \in 1..Len(b) |-> IF k = offset + 1 THEN v \div 256
                       ELSE IF k = offset + 2 THEN v % 256 ELSE b[k]]

\* What a parser that threw hands to its caller.
Thrown == [ok |-> FALSE]

\* The loop of parseDomainName at currentOffset, with the name and the
\* number of bytes read so far.
RECURSIVE parseNameAt(_, _, _, _)
parseNameAt(b, currentOffset, name, bytesRead) ==
  IF ~InBuffer(b, currentOffset, 1) THEN Thrown
  ELSE LET length == getUint8(b, currentOffset)
       IN  IF length = 0
           THEN [ok |-> TRUE, name |-> name, bytesRead |-> bytesRead + 1]
           ELSE IF length \div 64 = 3
           THEN IF ~InBuffer(b, currentOffset + 1, 1) THEN Thrown
                ELSE [ok |-> TRUE, name |-> name \o CompressedText,
                      bytesRead |-> bytesRead + 2]
           ELSE IF ~InBuffer(b, currentOffset + 1, length) THEN Thrown
           ELSE parseNameAt(b, currentOffset + 1 + length,
                            (IF Len(name) > 0 THEN name \o <<DotChar>> ELSE name)
                              \o SubSeq(b, currentOffset + 2, currentOffset + 1 + length),
                            bytesRead + 1 + length)

parseDomainName(b, offset) == parseNameAt(b, offset, <<>>, 0)

\* The six 16-bit fields of the header.
ParseHeader(b) ==
  [ id |-> getUint16(b, 0), flags |-> getUint16(b, 2), qdcount |-> getUint16(b, 4),
    ancount |-> getUint16(b, 6), nscount |-> getUint16(b, 8),
    arcount |-> getUint16(b, 10) ]

\* The question loop: n questions from offset on.
RECURSIVE parseQuestions(_, _, _, _)
parseQuestions(b, offset, n, questions) ==
  IF n = 0 THEN [ok |-> TRUE, questions |-> questions, offset |-> offset]
  ELSE LET d == parseDomainName(b, offset)
       IN  IF ~d.ok THEN Thrown
           ELSE LET o == offset + d.bytesRead
                IN  IF ~InBuffer(b, o, 4) THEN Thrown
                    ELSE parseQuestions(b, o + 4, n - 1,
                           Append(questions,
                                  [name |-> d.name, type |-> getUint16(b, o),
                                   class |-> getUint16(b, o + 2)]))

\* parseDnsQuery of a buffer: the header, the questions and the buffer itself.
parseDnsQuery(b) ==
  IF ~InBuffer(b, 0, 12) THEN Thrown
  ELSE LET header == ParseHeader(b)
           q == parseQuestions(b, 12, header.qdcount, <<>>)
       IN  IF ~q.ok THEN Thrown
           ELSE [ok |-> TRUE, header |-> header, questions |-> q.questions,
                 buffer |-> b]

RecordValue(kind, value) == [ok |-> TRUE, data |-> [kind |-> kind, value |-> value]]

\* The strings of a TXT record between txtOffset and end, joined by spaces.
RECURSIVE parseTxt(_, _, _, _)
parseTxt(b, txtOffset, end, txtData) ==
  IF txtOffset >= end THEN RecordValue("txt", txtData)
  ELSE IF ~InBuffer(b, txtOffset, 1) THEN Thrown
  ELSE LET strLength == getUint8(b, txtOffset)
           last == IF txtOffset + 1 + strLength <= end THEN txtOffset + 1 + strLength
                   ELSE end
           str == SubSeq(b, txtOffset + 2, last)
       IN  parseTxt(b, last, end,
                    (IF Len(txtData) > 0 THEN txtData \o <<SpaceChar>> ELSE <<>>) \o str)

\* The switch on the record type: the data of one answer record.
RecordData(b, type, offset, rdlength) ==
  CASE type = A ->
         IF rdlength = 4 THEN RecordValue("ipv4", SubSeq(b, offset + 1, offset + 4))
         ELSE RecordValue("undefined", <<>>)
    [] type = AAAA ->
         IF rdlength = 16 THEN RecordValue("ipv6", SubSeq(b, offset + 1, offset + 16))
         ELSE RecordValue("undefined", <<>>)
    [] type \in {CNAME, NS, PTR} ->
         LET d == parseDomainName(b, offset)
         IN  IF d.ok THEN RecordValue("name", d.name) ELSE Thrown
    [] type = MX ->
         IF ~InBuffer(b, offset, 2) THEN Thrown
         ELSE LET d == parseDomainName(b, offset + 2)
              IN  IF d.ok THEN RecordValue("mx", <<getUint16(b, offset)>> \o d.name)
                  ELSE Thrown
    [] type = TXT -> parseTxt(b, offset, offset + rdlength, <<>>)
    [] OTHER -> RecordValue("hex", SubSeq(b, offset + 1, offset + rdlength))

\* The answer loop: n records from offset on.
RECURSIVE parseAnswers(_, _, _, _)
parseAnswers(b, offset, n, answers) ==
  IF n = 0 THEN [ok |-> TRUE, answers |-> answers]
  ELSE LET d == parseDomainName(b, offset)
       IN  IF ~d.ok THEN Thrown
           ELSE LET o == offset + d.bytesRead
                IN  IF ~InBuffer(b, o, 10) THEN Thrown
                    ELSE LET type == getUint16(b, o)
                             rdlength == getUint16(b, o + 8)
                         IN  IF ~InBuffer(b, o + 10, rdlength) THEN Thrown
                             ELSE LET r == RecordData(b, type, o + 10, rdlength)
                                  IN  IF ~r.ok THEN Thrown
                                      ELSE parseAnswers(b, o + 10 + rdlength, n - 1,
                                             Append(answers,
                                               [name |-> d.name, type |-> type,
                                                class |-> getUint16(b, o + 2),
                                                ttl |-> getUint32(b, o + 4),
                                                data |-> r.data]))

\* The default error response of parseDnsResponse.
errorResponse ==
  [header |-> 0, flags |-> 0, rcode |-> SERVFAIL, questions |-> <<>>, answers |-> <<>>]

\* parseDnsResponse of an ArrayBuffer.
parseDnsResponse(b) ==
  IF ~InBuffer(b, 0, 12) THEN errorResponse
  ELSE LET header == ParseHeader(b)
           q == parseQuestions(b, 12, header.qdcount, <<>>)
       IN  IF ~q.ok THEN errorResponse
           ELSE LET a == parseAnswers(b, q.offset, header.ancount, <<>>)
                IN  IF ~a.ok THEN errorResponse
                    ELSE [header |-> header.id, flags |-> header.flags,
                          rcode |-> header.flags % 16,
                          questions |-> q.questions, answers |-> a.answers]

\* buildDnsResponse(query, {rcode}): a copy of the query's buffer with the QR
\* bit set and the RCODE bits replaced by (rcode || NOERROR) & 0x0f.
buildDnsResponse(query, rcode) ==
  LET flags == getUint16(query.buffer, 2)
      qr    == IF flags >= 32768 THEN flags ELSE flags + 32768
      code  == IF rcode = None \/ rcode = Some(0) THEN 0 ELSE rcode[1] % 16
  IN  setUint16(query.buffer, 2, (qr - (qr % 16)) + code)

(* -------------------------- load balancer runs ------------------------- *)

Registered(i) == i \in lb.registered

\* What a handler does to the context of the request when it is given that
\* context itself (random and fallback strategies).
OnContext(c, b, i) ==
  IF b = "setResponse" THEN baseSetResponse(c, BodyOf(i))
  ELSE IF b = "tag" THEN addTag(c, UpstreamName(i))
  ELSE Assigned(c, b, i)

\* No upstream, or a strategy the plugin does not know.
BalancerRefuse ==
  /\ lb.pc = "idle"
  /\ lb.n = 0 \/ lb.strategy = "unknown"
  /\ lb' = [lb EXCEPT !.pc = "done", !.result = "false"]
  /\ UNCHANGED <<subs, clock>>
  /\ UNCHANGED <<chainVars, loaderVars, workerVars, callVars>>

\* strategy "random": one upstream is drawn and its handler called with ctx.
RandomStart ==
  /\ lb.pc = "idle" /\ lb.strategy = "random" /\ lb.n > 0
  /\ \E r \in 1..lb.n :
       IF Registered(r)
       THEN /\ subs' = [subs EXCEPT ![r].st = "running"]
            /\ lb' = [lb EXCEPT !.pc = "awaiting", !.k = r, !.calls = <<r>>]
       ELSE /\ lb' = [lb EXCEPT !.pc = "done", !.result = "false"]
            /\ UNCHANGED subs
  /\ UNCHANGED clock
  /\ UNCHANGED <<chainVars, loaderVars, workerVars, callVars>>

\* `return await plugin(ctx, {})`; a raise ends in the outer catch.
RandomSettle ==
  /\ lb.pc = "awaiting"
  /\ subs[lb.k].st = "running"
  /\ \E b \in Behaviours :
       /\ ctx' = OnContext(ctx, b, lb.k)
       /\ pendingPuts' = pendingPuts \cup
            (IF b = "setResponse" THEN HookPuts(ctx, BodyOf(lb.k)) ELSE {})
       /\ subs' = [subs EXCEPT ![lb.k].st = "settled", ![lb.k].how = b]
       /\ lb' = [lb EXCEPT !.pc = "done",
                           !.result = IF ReturnOf(b) = "true" THEN "true" ELSE "false"]
  /\ UNCHANGED <<plugins, pc, idx, running, hist, cacheStore, reqNo, clock>>
  /\ UNCHANGED <<loaderVars, workerVars, callVars>>

\* strategy "parallel", lines 54-93: the promise executors run one after the
\* other; each makes its clone and either resolves at once (no such plugin)
\* or arms its timer and calls the handler.
ParallelStart ==
  /\ lb.pc = "idle" /\ lb.strategy = "parallel" /\ lb.n > 0
  /\ subs' = [i \in 1..MaxUpstreams |->
                IF i > lb.n THEN subs[i]
                ELSE IF Registered(i)
                THEN [NewSub EXCEPT !.st = "running", !.clone = CloneOf(ctx),
                                    !.timer = "armed", !.promise = "pending"]
                ELSE [NewSub EXCEPT !.st = "missing", !.clone = CloneOf(ctx),
                                    !.promise = "failure"]]
  /\ lb' = [lb EXCEPT !.pc = "joining"]
  /\ UNCHANGED clock
  /\ UNCHANGED <<chainVars, loaderVars, workerVars, callVars>>

\* The handler of a sub-invocation settles (lines 80-91).  It was given the
\* clone: what it assigns stays in the clone; what it pushes onto
\* metadata.tags lands in the array the original shares; ctx.setResponse is
\* on the clone only when a cache miss has put its wrapper on ctx, and that
\* wrapper sets the response of the context it was made for.
ParallelSubSettle ==
  /\ lb.strategy = "parallel"
  /\ \E i \in 1..lb.n, b \in Behaviours :
       /\ subs[i].st = "running"
       /\ LET through == b = "setResponse" /\ ctx.hooks > 0
              r  == IF b = "setResponse" /\ ctx.hooks = 0 THEN "raise" ELSE ReturnOf(b)
              q  == Assigned(subs[i].clone, b, i)
              ok == r = "true" /\ q.resolved
          IN  /\ subs' = [subs EXCEPT ![i] =
                   [ st      |-> "settled",
                     how     |-> b,
                     clone   |-> q,
                     timer   |-> IF subs[i].timer = "armed" THEN "cleared"
                                 ELSE subs[i].timer,
                     promise |-> IF subs[i].promise # "pending" THEN subs[i].promise
                                 ELSE IF ok THEN "success" ELSE "failure" ]]
              /\ ctx' = IF through THEN baseSetResponse(ctx, BodyOf(i))
                        ELSE IF b = "tag" THEN addTag(ctx, UpstreamName(i))
                        ELSE ctx
              /\ pendingPuts' = pendingPuts \cup
                   (IF through THEN HookPuts(ctx, BodyOf(i)) ELSE {})
              /\ lb' = IF ok /\ subs[i].promise = "pending" /\ lb.first = None
                       THEN [lb EXCEPT !.first = Some([i |-> i, at |-> clock])]
                       ELSE lb
  /\ UNCHANGED <<plugins, pc, idx, running, hist, cacheStore, reqNo, clock>>
  /\ UNCHANGED <<loaderVars, workerVars, callVars>>

\* Faulty variant: the timer callback never runs.
MutTimerDue(i) == FALSE

\* setTimeout(..., parallel_timeout): the callback of sub-invocation i is due.
TimerDue(i) == subs[i].timer = "armed" /\ clock >= PARALLEL_TIMEOUT

\* The timer callback: resolve({ success: false, upstream, error: "timeout" }).
TimerFire ==
  /\ \E i \in 1..lb.n :
       /\ TimerDue(i)
       /\ subs' = [subs EXCEPT ![i].timer = "fired", ![i].promise = "failure"]
  /\ UNCHANGED <<lb, clock>>
  /\ UNCHANGED <<chainVars, loaderVars, workerVars, callVars>>

\* `await Promise.all(queries)` has every result.
AllSettled == \A i \in 1..lb.n : subs[i].promise # "pending"

\* Lines 96-110: the first success in list order is copied back.
ParallelJoin ==
  /\ lb.pc = "joining"
  /\ AllSettled
  /\ LET wins == {i \in 1..lb.n : subs[i].promise = "success"}
     IN  IF wins = {}
         THEN /\ lb' = [lb EXCEPT !.pc = "done", !.result = "false"]
              /\ UNCHANGED <<ctx, pendingPuts>>
         ELSE LET w    == CHOOSE i \in wins : \A j \in wins : i <= j
                  body == subs[w].clone.response
              IN  /\ ctx' = [baseSetResponse(ctx, body)
                               EXCEPT !.resolved = TRUE, !.upstream = UpstreamName(w)]
                  /\ pendingPuts' = pendingPuts \cup HookPuts(ctx, body)
                  /\ lb' = [lb EXCEPT !.pc = "done", !.result = "true"]
  /\ UNCHANGED <<plugins, pc, idx, running, hist, cacheStore, reqNo, subs, clock>>
  /\ UNCHANGED <<loaderVars, workerVars, callVars>>

\* strategy "fallback": the loop over the upstreams begins.
FallbackStart ==
  /\ lb.pc = "idle" /\ lb.strategy = "fallback" /\ lb.n > 0
  /\ lb' = [lb EXCEPT !.pc = "trying", !.k = 1]
  /\ UNCHANGED <<subs, clock>>
  /\ UNCHANGED <<chainVars, loaderVars, workerVars, callVars>>

\* The head of the loop body: the loop ends, or the upstream has no plugin
\* (continue), or its handler is called with ctx.
FallbackNext ==
  /\ lb.pc = "trying"
  /\ IF lb.k > lb.n
     THEN /\ lb' = [lb EXCEPT !.pc = "done", !.result = "false"]
          /\ UNCHANGED subs
     ELSE /\ subs[lb.k].st = "idle"
          /\ IF Registered(lb.k)
             THEN /\ subs' = [subs EXCEPT ![lb.k].st = "running"]
                  /\ lb' = [lb EXCEPT !.calls = Append(@, lb.k)]
             ELSE /\ subs' = [subs EXCEPT ![lb.k].st = "missing"]
                  /\ lb' = [lb EXCEPT !.k = @ + 1]
  /\ UNCHANGED clock
  /\ UNCHANGED <<chainVars, loaderVars, workerVars, callVars>>

\* Faulty variant: a handler that returns true counts as a success even if
\* the request is not resolved.
MutFallbackSucceeds(r, c) == r = "true"

\* result && ctx.resolved
FallbackSucceeds(r, c) == r = "true" /\ c.resolved

\* `await plugin(ctx, {})` is over (lines 126-136).
FallbackSettle ==
  /\ lb.pc = "trying"
  /\ lb.k <= lb.n
  /\ subs[lb.k].st = "running"
  /\ \E b \in Behaviours :
       LET c1 == OnContext(ctx, b, lb.k)
           ok == FallbackSucceeds(ReturnOf(b), c1)
       IN  /\ ctx' = IF ok THEN [c1 EXCEPT !.upstream = UpstreamName(lb.k)] ELSE c1
           /\ pendingPuts' = pendingPuts \cup
                (IF b = "setResponse" THEN HookPuts(ctx, BodyOf(lb.k)) ELSE {})
           /\ subs' = [subs EXCEPT ![lb.k].st = "settled", ![lb.k].how = b,
                                   ![lb.k].promise = IF ok THEN "success" ELSE "failure"]
           /\ lb' = IF ok THEN [lb EXCEPT !.pc = "done", !.result = "true"]
                    ELSE [lb EXCEPT !.k = @ + 1]
  /\ UNCHANGED <<plugins, pc, idx, running, hist, cacheStore, reqNo, clock>>
  /\ UNCHANGED <<loaderVars, workerVars, callVars>>

\* The plugin can take a step of its own without waiting for anything.
BalancerReady ==
  \/ lb.pc = "joining" /\ AllSettled
  \/ lb.pc = "trying" /\ (lb.k > lb.n \/ subs[lb.k].st = "idle")

\* Time passes while the plugin waits; a timer that is due fires and a
\* continuation that is ready runs before the clock is read again.
ClockTick ==
  /\ lb.pc \in {"joining", "trying", "awaiting"}
  /\ clock < MaxClock * ClockStep
  /\ ~BalancerReady
  /\ \A i \in 1..lb.n : ~TimerDue(i)
  /\ clock' = clock + ClockStep
  /\ UNCHANGED <<lb, subs>>
  /\ UNCHANGED <<chainVars, loaderVars, workerVars, callVars>>

\* The request context when the plugin is called: fresh, or after a cache
\* miss put its wrapper around setResponse.
BalancerContexts ==
  LET c == EnsureMetadata(NewContext([name |-> "a.com", type |-> 1, json |-> TRUE, dns |-> NoMessage]))
  IN  {c, executeCacheMiss(c, [ttl |-> None], Match(CacheKeyOf(c), FALSE)).ctx}

InitBalancer ==
  /\ plugins = <<>>
  /\ ctx \in BalancerContexts
  /\ pc = "idle"
  /\ idx = 1
  /\ running = {}
  /\ hist = NewHist
  /\ cacheStore = [k \in Keys |-> None]
  /\ pendingPuts = {}
  /\ reqNo = 1
  /\ LoaderIdle
  /\ WorkerIdle /\ CallIdle
  /\ lb \in {NewBalancer(s, n, reg, ctx) :
               s \in Strategies, n \in 0..MaxUpstreams, reg \in SUBSET (1..MaxUpstreams)}
  /\ lb.registered \subseteq 1..lb.n
  /\ subs = [i \in 1..MaxUpstreams |-> NewSub]
  /\ clock = 0

NextBalancer ==
  \/ BalancerRefuse \/ RandomStart \/ RandomSettle
  \/ ParallelStart \/ ParallelSubSettle \/ TimerFire \/ ParallelJoin
  \/ FallbackStart \/ FallbackNext \/ FallbackSettle
  \/ ClockTick

SpecBalancer == InitBalancer /\ [][NextBalancer]_vars

\* The steps that do not depend on a handler: the plugin's own statements,
\* the timers and the clock.  Nothing obliges a handler to settle.
BalancerOwnSteps ==
  \/ BalancerRefuse \/ RandomStart \/ ParallelStart \/ TimerFire \/ ParallelJoin
  \/ FallbackStart \/ FallbackNext \/ ClockTick

SpecBalancerFair == SpecBalancer /\ WF_vars(BalancerOwnSteps)

(* --------------------------- data loader runs -------------------------- *)

\* No request is in progress.
ChainIdle ==
  /\ plugins = <<>>
  /\ ctx = NewContext([name |-> "a.com", type |-> 1, json |-> TRUE, dns |-> NoMessage])
  /\ pc = "idle"
  /\ idx = 1
  /\ running = {}
  /\ hist = NewHist
  /\ cacheStore = [k \in Keys |-> None]
  /\ pendingPuts = {}
  /\ reqNo = 1

InitLoader ==
  ChainIdle /\ (\E e \in Envs : LoaderAt(e)) /\ BalancerIdle /\ WorkerIdle /\ CallIdle

NextLoader ==
  LoadStart \/ KvGetSettle \/ LoadResume \/ Tick \/ UploadPut \/ UploadClear

SpecLoader == InitLoader /\ [][NextLoader]_vars

\* Lookups in every family, one after the other or overlapping, and calls of
\* clearCache between them.
InitClear ==
  /\ ChainIdle /\ BalancerIdle /\ WorkerIdle /\ CallIdle
  /\ dataCache = [f \in Families |-> [k \in KvKeys |-> None]]
  /\ now = 0
  /\ env \in Envs
  /\ loads = [l \in 1..MaxLookups |-> NewLoad]
  /\ uploads = [count |-> 0, clearing |-> {}]

NextClear == LoadStart \/ KvGetSettle \/ LoadResume \/ ClearCache

SpecClear == InitClear /\ [][NextClear]_vars

\* A worker whose namespace is empty or already holds an uploaded file.
StoredEnvs ==
  {[DATA_KV |-> Some([k \in KvKeys |-> v])] : v \in {None} \cup {Some(t) : t \in Texts}}

\* Lookups whose DATA_KV.get may fail, one after the other or overlapping.
InitRetry ==
  /\ ChainIdle /\ BalancerIdle /\ WorkerIdle /\ CallIdle
  /\ dataCache = [f \in Families |-> [k \in KvKeys |-> None]]
  /\ now = 0
  /\ env \in StoredEnvs
  /\ loads = [l \in 1..MaxLookups |-> NewLoad]
  /\ uploads = [count |-> 0, clearing |-> {}]

NextRetry == LoadStart \/ KvGetSettle \/ LoadResume

SpecRetry == InitRetry /\ [][NextRetry]_vars

(* --------------------------- DNS message runs -------------------------- *)

\* Questions on the wire: a/A/IN, a.b/AAAA/IN, and one whose name is a
\* compression pointer.
QuestionEncodings ==
  { <<1, 97, 0, 0, 1, 0, 1>>, <<1, 97, 1, 98, 0, 0, 28, 0, 1>>,
    <<192, 12, 0, 1, 0, 1>> }

\* The name of an answer record that points back to offset 12, where the
\* name of the first question starts.
PointerToQuestion == <<192, 12>>

\* Answer records on the wire: an A record (ttl 300, 1.2.3.4) and a CNAME
\* record whose owner name is the pointer, and an A record whose owner name
\* is spelled out.
AnswerEncodings ==
  { PointerToQuestion \o <<0, 1, 0, 1, 0, 0, 1, 44, 0, 4, 1, 2, 3, 4>>,
    PointerToQuestion \o <<0, 5, 0, 1, 0, 0, 1, 44, 0, 2, 192, 12>>,
    <<1, 97, 0, 0, 1, 0, 1, 0, 0, 1, 44, 0, 4, 1, 2, 3, 4>> }

RECURSIVE SeqsUpTo(_, _)
SeqsUpTo(S, n) ==
  IF n = 0 THEN {<<>>}
  ELSE LET shorter == SeqsUpTo(S, n - 1)
       IN  shorter \cup {Append(q, x) : q \in shorter, x \in S}

RECURSIVE Concat(_)
Concat(parts) == IF parts = <<>> THEN <<>> ELSE Head(parts) \o Concat(Tail(parts))

\* Messages a client or an upstream can send: any counts in the header over
\* any questions and answer records that follow it.
Messages ==
  [ id : {0, 1234}, flags : {256, 33152, 271},
    qdcount : 0..MaxQuestions, ancount : 0..MaxAnswers,
    questions : SeqsUpTo(QuestionEncodings, MaxQuestions),
    answers : SeqsUpTo(AnswerEncodings, MaxAnswers) ]

\* The bytes of message m.
Wire(m) ==
  << m.id \div 256, m.id % 256, m.flags \div 256, m.flags % 256,
     0, m.qdcount, 0, m.ancount, 0, 0, 0, 0 >>
    \o Concat(m.questions) \o Concat(m.answers)

\* Response codes, four bits.
RCodes == 0..15

\* parseDnsQuery of a received message, then buildDnsResponse with an rcode
\* and parseDnsResponse of what it built.
BuildErrorResponse ==
  /\ input # None /\ output = None
  /\ LET query == parseDnsQuery(Wire(input[1].message))
     IN  IF query.ok
         THEN LET response == buildDnsResponse(query, Some(input[1].rcode))
              IN  output' = Some([fn |-> "error", query |-> query,
                                  response |-> response,
                                  parsed |-> parseDnsResponse(response)])
         ELSE output' = Some([fn |-> "error", query |-> query, response |-> <<>>,
                              parsed |-> errorResponse])
  /\ UNCHANGED input
  /\ UNCHANGED <<chainVars, loaderVars, balancerVars, workerVars>>

\* parseDnsResponse of a received message.
ParseResponse ==
  /\ input # None /\ output = None
  /\ output' = Some([fn |-> "parse", query |-> Thrown,
                     response |-> Wire(input[1].message),
                     parsed |-> parseDnsResponse(Wire(input[1].message))])
  /\ UNCHANGED input
  /\ UNCHANGED <<chainVars, loaderVars, balancerVars, workerVars>>

InitMessage ==
  /\ ChainIdle /\ LoaderIdle /\ BalancerIdle /\ WorkerIdle
  /\ input \in {Some([message |-> m, rcode |-> r]) : m \in Messages, r \in RCodes}
  /\ output = None

NextMessage == BuildErrorResponse \/ ParseResponse

SpecMessage == InitMessage /\ [][NextMessage]_vars

(* ------------------------------ CIDR tests ----------------------------- *)

\* A 32-bit word, hi * 2^16 + lo, kept as its two 16-bit halves.
Word(hi, lo) == [hi |-> hi, lo |-> lo]

\* ipv4ToInt of the four decimal parts of an address:
\* (p0 << 24) | (p1 << 16) | (p2 << 8) | p3.
ipv4ToInt(ip) == Word(ip[1] * 256 + ip[2], ip[3] * 256 + ip[4])

RECURSIVE Pow2(_)
Pow2(k) == IF k = 0 THEN 1 ELSE 2 * Pow2(k - 1)

\* 1 << count: the shift count of << is taken modulo 32.
ShiftOne(count) ==
  LET k == count % 32
  IN  IF k < 16 THEN Word(0, Pow2(k)) ELSE Word(Pow2(k - 16), 0)

\* w - 1, brought back to 32 bits by the ~ that follows.
MinusOne(w) ==
  IF w.lo > 0 THEN Word(w.hi, w.lo - 1) ELSE Word((w.hi + 65535) % 65536, 65535)

\* ~w
BitNot(w) == Word(65535 - w.hi, 65535 - w.lo)

RECURSIVE And16(_, _, _)
And16(x, y, k) ==
  IF k = 0 THEN 0
  ELSE (x % 2) * (y % 2) + 2 * And16(x \div 2, y \div 2, k - 1)

\* w & v
BitAnd(w, v) == Word(And16(w.hi, v.hi, 16), And16(w.lo, v.lo, 16))

\* ipInCidr(ip, range + "/" + bits)
ipInCidr(ip, range, bits) ==
  IF bits < 0 \/ bits > 32 THEN FALSE
  ELSE LET ipInt == ipv4ToInt(ip)
           rangeInt == ipv4ToInt(range)
           mask == BitNot(MinusOne(ShiftOne(32 - bits)))
       IN  BitAnd(ipInt, mask) = BitAnd(rangeInt, mask)

\* Addresses that differ in the first bit, in the second octet and in the
\* last bits.
Addresses ==
  { <<0, 0, 0, 0>>, <<10, 0, 0, 1>>, <<10, 0, 0, 2>>, <<10, 1, 0, 1>>,
    <<138, 0, 0, 1>>, <<255, 255, 255, 255>> }

PrefixLengths == 0..32

CidrTest ==
  /\ input # None /\ output = None
  /\ output' = Some(ipInCidr(input[1].ip, input[1].range, input[1].bits))
  /\ UNCHANGED input
  /\ UNCHANGED <<chainVars, loaderVars, balancerVars, workerVars>>

InitCidr ==
  /\ ChainIdle /\ LoaderIdle /\ BalancerIdle /\ WorkerIdle
  /\ input \in {Some([ip |-> ip, range |-> range, bits |-> n]) :
                  ip \in Addresses, range \in Addresses, n \in PrefixLengths}
  /\ output = None

NextCidr == CidrTest

SpecCidr == InitCidr /\ [][NextCidr]_vars

(* ------------------------------ worker runs ---------------------------- *)

\* Byte values of the messages of the requests: the sextets of 248 and 255
\* begin with 62 and 63.
WorkerBytes == {1, 248, 255}

WorkerMessages == ByteStrings(WorkerBytes, MaxBytes) \ {<<>>}

\* Requests: GET with a well-formed dns parameter, with a name parameter or
\* with neither; POST of three content types; PUT; a GET of another path.
Requests ==
  {NewRequestRecord("GET", "/dns-query", Some(arrayBufferToBase64Url(b)), n,
                    Undefined, None, FALSE) :
     b \in WorkerMessages, n \in BOOLEAN}
  \cup {NewRequestRecord("GET", "/dns-query", None, n, Undefined, None, FALSE) :
          n \in BOOLEAN}
  \cup {NewRequestRecord("POST", "/dns-query", None, FALSE, t, Some(b), j) :
          t \in {"application/dns-message", "application/json", "text/plain"},
          b \in WorkerMessages, j \in BOOLEAN}
  \cup {NewRequestRecord("PUT", "/dns-query", None, FALSE, "application/dns-message",
                         Some(<<1>>), FALSE),
        NewRequestRecord("GET", "/", None, FALSE, Undefined, None, FALSE)}

WorkerStep(type, action, rcode) ==
  [ type |-> type, tag |-> StepTag(1), if_matched |-> Undefined,
    if_not_matched |-> Undefined, ttl |-> None, action |-> action,
    rcode |-> rcode ]

\* config.plugins: no step, or one step (one of them conditional on a tag
\* that no step adds).
WorkerChains ==
  {<<>>, <<WorkerStep("custom", Undefined, None)>>,
   <<WorkerStep("forward", Undefined, None)>>,
   <<[WorkerStep("forward", Undefined, None) EXCEPT !.if_matched = StepTag(2)]>>,
   <<WorkerStep("response_modifier", "accept", None)>>}
  \cup {<<WorkerStep("response_modifier", "reject", rc)>> :
          rc \in {None, Some(0), Some(SERVFAIL), Some(REFUSED)}}

\* fetch(request, env, ctx) up to the execution of the chain.
WorkerFetch ==
  /\ pc = "none"
  /\ reply = None
  /\ IF request.path # "/dns-query"
     THEN /\ reply' = Reply(404, "text", NullResponse)
          /\ UNCHANGED <<ctx, pc>>
     ELSE LET dnsContext == fromRequest(request)
          IN  IF dnsContext = None
              THEN /\ reply' = Reply(400, "text", NullResponse)
                   /\ UNCHANGED <<ctx, pc>>
              ELSE /\ ctx' = dnsContext[1]
                   /\ pc' = "idle"
                   /\ UNCHANGED reply
  /\ UNCHANGED <<plugins, idx, running, hist, cacheStore, pendingPuts, reqNo, request,
               concurrent>>
  /\ UNCHANGED <<loaderVars, balancerVars, callVars>>

\* The chain has run: return dnsContext.buildResponse(), or the reply of the
\* catch block when execute rejected.
WorkerReply ==
  /\ pc \in {"done", "failed"}
  /\ reply = None
  /\ reply' = IF pc = "failed" THEN Reply(500, "text", NullResponse)
              ELSE buildResponse(ctx, request)
  /\ UNCHANGED <<chainVars, request, concurrent, callVars>>
  /\ UNCHANGED <<loaderVars, balancerVars, callVars>>

InitWorker ==
  /\ plugins \in WorkerChains
  /\ ctx = NewContext([name |-> "a.com", type |-> 1, json |-> TRUE, dns |-> NoMessage])
  /\ pc = "none"
  /\ idx = 1
  /\ running = {}
  /\ hist = NewHist
  /\ cacheStore = [k \in Keys |-> None]
  /\ pendingPuts = {}
  /\ reqNo = 1
  /\ LoaderIdle
  /\ BalancerIdle
  /\ request \in Requests
  /\ reply = None
  /\ concurrent = <<>>
  /\ CallIdle

NextWorker ==
  \/ WorkerFetch \/ WorkerReply
  \/ StartExecute \/ Skip \/ Invoke
  \/ CustomHandler \/ ExecuteForward \/ ExecuteResponseModifier

SpecWorker == InitWorker /\ [][NextWorker]_vars

(* ------------------------------ properties ----------------------------- *)

Steps == 1..Len(plugins)

Finished == pc \in {"done", "failed"}

Settled(i) == hist.outcome[i] # "none"

\* The conditions of step p, evaluated against a list of tags.
CondsHoldAt(p, tags) ==
  /\ p.if_matched = Undefined \/ p.if_matched \in Range(tags)
  /\ p.if_not_matched = Undefined \/ p.if_not_matched \notin Range(tags)

\* The tags a step sees when the loop gets to it; for a step the loop never
\* got to, the tags the context was left with.
TagsSeenBy(j) == IF hist.status[j] = "unreached" THEN ctx.tags
                 ELSE hist.reachTags[j]

\* C1: if ctx.resolved is true once the handler of a step has finished,
\* whether it returned or raised, the handler of no later step is invoked.
C1_ShortCircuit ==
  \A i \in Steps, j \in Steps :
    (i < j /\ hist.resolvedAfter[i] = "yes") => hist.status[j] # "invoked"

\* C2: if a handler raises while ctx.resolved is false, every later step
\* whose conditions hold is still invoked, and metadata.errors holds exactly
\* one entry for the raise, carrying the tag of the failing step.
C2_ErrorIsolation ==
  \A i \in Steps :
    (Raised(hist.outcome[i]) /\ hist.resolvedAfter[i] = "no") =>
      /\ Cardinality({k \in 1..Len(ctx.errors) :
                        ctx.errors[k].plugin = plugins[i].tag}) = 1
      /\ Finished =>
           \A j \in Steps :
             (i < j /\ CondsHoldAt(plugins[j], TagsSeenBy(j)))
               => hist.status[j] = "invoked"

\* C3: a step the loop gets to is invoked iff its if_matched tag is among
\* the context's tags and its if_not_matched tag is not, at that moment; the
\* tags of that moment are exactly the tags of the earlier steps that
\* returned true, so a tag added by a later step plays no part.
C3_ConditionalSkip ==
  \A i \in Steps :
    hist.status[i] # "unreached" =>
      /\ Range(hist.reachTags[i]) =
           {plugins[k].tag : k \in {k \in 1..(i - 1) : hist.outcome[k] = "true"}}
      /\ hist.status[i] = "invoked" <=> CondsHoldAt(plugins[i], hist.reachTags[i])

\* A step conditioned on the tag of a later step was skipped although that
\* later step went on to add its tag, and a step after it, conditioned on
\* the same tag, ran; a step with if_not_matched ran because the tag was
\* absent.
C3_Witness ==
  /\ Len(plugins) >= 3
  /\ plugins[1].if_matched = StepTag(2) /\ hist.status[1] = "skipped"
  /\ hist.outcome[2] = "true" /\ hasTag(ctx, StepTag(2))
  /\ plugins[3].if_matched = StepTag(2) /\ plugins[3].if_not_matched = StepTag(1)
  /\ hist.status[3] = "invoked"

\* C4: a handler that returns true while ctx.resolved is false gets its tag
\* added and the loop goes on to the next step; steps are left unexecuted at
\* the end of execute only if ctx.resolved is true.
C4_ReturnNeverStops ==
  /\ \A i \in Steps :
       (hist.outcome[i] = "true" /\ hist.resolvedAfter[i] = "no") =>
         /\ hasTag(ctx, plugins[i].tag)
         /\ i < Len(plugins) =>
              (hist.status[i + 1] # "unreached" \/ (pc = "loop" /\ idx = i + 1))
  /\ (Finished /\ \E j \in Steps : hist.status[j] = "unreached") => ctx.resolved

\* C5: handlers are invoked in configuration order, each step at most once,
\* and no handler is started while the handler of an earlier step has not
\* settled.
C5_ChainOrdering ==
  /\ \A a, b \in 1..Len(hist.calls) : a < b => hist.calls[a] < hist.calls[b]
  /\ \A a \in 1..Len(hist.calls) :
       a < Len(hist.calls) => hist.calls[a] \notin running
  /\ Cardinality(running) <= 1

\* The third handler is running after the first two were invoked and settled
\* in turn.
C5_Witness ==
  /\ hist.calls = <<1, 2, 3>>
  /\ running = {3}
  /\ Settled(1) /\ Settled(2)

\* C7: for every handler invocation that has finished, returning or raising,
\* metadata.timings[step.tag] was written exactly once; a step that was not
\* invoked has no timings entry.
C7_TimingsOncePerExecution ==
  \A i \in Steps :
    /\ (hist.status[i] = "invoked" /\ Settled(i)) => ctx.timings[plugins[i].tag] = 1
    /\ hist.status[i] \in {"skipped", "unreached"} => ctx.timings[plugins[i].tag] = 0

Types == [i \in Steps |-> plugins[i].type]

Unconditional == \A i \in Steps : plugins[i].if_matched = Undefined
                                    /\ plugins[i].if_not_matched = Undefined

\* The chain [cache, forward], both steps without conditions.
CacheForward == Types = <<"cache", "forward">> /\ Unconditional

\* The ttl the chain configuration gives the cache step (300 when it gives
\* none).
ConfiguredTtl(args) == IF args.ttl = None THEN DEFAULT_TTL ELSE args.ttl[1]

\* C6: at every point of the execution of a chain of built-in plugins,
\* ctx.resolved = true implies that ctx.response or ctx.error is set.
C6_ResolvedHasOutcome ==
  ctx.resolved => (ctx.response # NullResponse \/ ctx.error # None)

\* C8: in a request through [cache, forward] whose key has no cache entry,
\* the cache plugin tags cache_miss and returns false, the forwarder runs,
\* and the bytes the forwarder passes to setResponse are put in the cache
\* under the request's key with max-age equal to the configured ttl, and
\* nothing else is.
C8_MissWriteThrough ==
  (CacheForward /\ hist.lookup[1] = "absent") =>
    /\ hasTag(ctx, "cache_miss") /\ hist.outcome[1] = "false"
    /\ Finished => hist.status[2] = "invoked"
    /\ (Settled(2) /\ hist.forwarded # NullResponse) =>
         hist.puts = {[ key    |-> CacheKeyOf(ctx),
                            body   |-> hist.forwarded,
                            maxAge |-> ConfiguredTtl(plugins[1]) ]}

\* C9: when the cache plugin finds an entry under the request's key, the
\* request is tagged cache_hit and resolved by the cache plugin, no later
\* step (the forwarder) is invoked, and the response bytes are bytes that an
\* earlier request put under that key.
C9_CacheHit ==
  \A i \in Steps :
    (plugins[i].type = "cache" /\ hist.lookup[i] = "found") =>
      /\ hasTag(ctx, "cache_hit")
      /\ ctx.resolved
      /\ hist.outcome[i] = "true"
      /\ \A j \in Steps : j > i => hist.status[j] = "unreached"
      /\ \E p \in hist.earlierPuts :
           p.key = CacheKeyOf(ctx) /\ p.body = ctx.response

\* The second request through [cache, forward] was answered from the entry
\* the first request stored.
C9_Witness ==
  /\ CacheForward
  /\ reqNo = 2
  /\ pc = "done"
  /\ hist.lookup[1] = "found"
  /\ ctx.response \in UpstreamBytes
  /\ hist.status[2] = "unreached"

\* C10: when the context carries bypass_cache as the cache plugin starts,
\* the plugin adds cache_bypassed, returns false, does not ask the backend
\* and installs no hook (hooks are installed by misses only); a request in
\* which no hook was installed makes no put.
C10_Bypass ==
  \A i \in Steps :
    (plugins[i].type = "cache" /\ Settled(i)
       /\ "bypass_cache" \in Range(hist.reachTags[i])) =>
      /\ hasTag(ctx, "cache_bypassed")
      /\ hist.outcome[i] = "false"
      /\ hist.lookup[i] = "bypass"
      /\ ctx.hooks = Cardinality({k \in Steps : hist.lookup[k] = "absent"})
      /\ ctx.hooks = 0 => hist.puts = {}

\* A tagger added bypass_cache, the cache plugin stepped aside, and the
\* forwarder answered the request without anything being put in the cache.
C10_Witness ==
  /\ Types = <<"tagger", "cache", "forward">> /\ Unconditional
  /\ pc = "done"
  /\ hist.outcome[1] = "true"
  /\ hist.lookup[2] = "bypass"
  /\ hasTag(ctx, "cache_bypassed")
  /\ hist.forwarded \in UpstreamBytes
  /\ ctx.response = hist.forwarded
  /\ hist.puts = {}

\* C11: when the backend fails during the lookup, the cache plugin does not
\* raise and behaves as on a miss: cache_miss is tagged, the write-through
\* hook is installed, false is returned and the chain goes on to the
\* following step.
C11_LookupFailureAsMiss ==
  \A i \in Steps :
    (plugins[i].type = "cache" /\ hist.lookup[i] = "error") =>
      /\ hist.outcome[i] = "false"
      /\ hasTag(ctx, "cache_miss")
      /\ ctx.hooks > 0
      /\ i < Len(plugins) =>
           (hist.status[i + 1] # "unreached" \/ (pc = "loop" /\ idx = i + 1))

\* The forwarder of step i has just settled after a failed upstream call.
ForwardFailedAt(i) ==
  /\ plugins[i].type = "forward"
  /\ hist.fetch[i] = "none"
  /\ hist'.fetch[i] = "failed"

\* C20: when the upstream call fails (status, network error or timeout), the
\* forwarder returns false and records metadata.upstreamError, ctx.error,
\* ctx.response and ctx.resolved are left as they were, and the loop goes on
\* to the next step.
C20_ForwardFailure ==
  [][\A i \in Steps :
       ForwardFailedAt(i) =>
         /\ hist'.outcome[i] = "false"
         /\ ctx'.upstreamError # Undefined
         /\ ctx'.error = ctx.error
         /\ ctx'.response = ctx.response
         /\ ctx'.resolved = ctx.resolved
         /\ i < Len(plugins) => (pc' = "loop" /\ idx' = i + 1)]_vars

Loads == 1..MaxLoads

\* Lookup l starts in this step.
LoadStarts(l) == loads[l].st = "new" /\ loads'[l].st # "new"

\* The DATA_KV.get call of lookup l has resolved and the loader resumes in
\* this step.
LoadResumes(l) == loads[l].st = "fetched" /\ loads'[l].st = "returned"

\* C12: a lookup of a key whose cache entry has not expired (now < expiry)
\* returns the entry's value, makes no DATA_KV.get call and leaves the cache
\* as it is; a lookup of a loaded key at or after the expiry makes exactly one
\* DATA_KV.get call, and when the call has resolved the result is cached
\* again for 30 minutes.
C12_LoaderTtl ==
  [][\A l \in Loads :
       LET f == loads'[l].family
           k == loads'[l].key
           e == dataCache[f][k]
       IN  /\ (LoadStarts(l) /\ e # None /\ now < e[1].expiry) =>
                /\ loads'[l].st = "returned"
                /\ loads'[l].calls = 0
                /\ loads'[l].result = Some(e[1].data)
                /\ dataCache' = dataCache
           /\ (LoadStarts(l) /\ e # None /\ now >= e[1].expiry /\ Bound) =>
                /\ loads'[l].st = "awaiting"
                /\ loads'[l].calls = 1
           /\ LoadResumes(l) =>
                /\ loads'[l].calls = 1
                /\ dataCache'[f][k] = Some([ data   |-> loads'[l].result[1],
                                             expiry |-> now + 30 * 60 * 1000 ])]_vars

\* The first lookup loaded the key; the second one came when the entry had
\* expired, called DATA_KV.get once and its result is the entry now cached.
C12_Witness ==
  /\ loads[1].st = "returned" /\ loads[1].served = "parsed" /\ loads[1].calls = 1
  /\ loads[2].family = loads[1].family
  /\ loads[2].seen = "expired"
  /\ loads[2].st = "returned" /\ loads[2].served = "parsed" /\ loads[2].calls = 1
  /\ loads[2].result # Some(LoadFailed(loads[2].family))
  /\ dataCache[loads[2].family][loads[2].key] =
       Some([data |-> loads[2].result[1], expiry |-> now + 30 * 60 * 1000])

\* C13: in each family, a lookup whose DATA_KV.get call failed returns (it
\* does not raise) and what it returns is empty: a set without members for
\* domains and ips, a map without keys for hosts.
C13_KvFailureIsEmpty ==
  \A l \in Loads :
    loads[l].served = "failed" =>
      /\ loads[l].st = "returned"
      /\ loads[l].calls = 1
      /\ loads[l].family \in {"domains", "ips"} => loads[l].result = Some({})
      /\ loads[l].family = "hosts" => DOMAIN loads[l].result[1] = {}

\* A hosts lookup and an ips lookup both failed.
C13_Witness ==
  /\ loads[1].served = "failed" /\ loads[1].family = "hosts"
  /\ loads[2].served = "failed" /\ loads[2].family = "ips"

Upstreams == 1..lb.n

Parallel == lb.strategy = "parallel" /\ lb.n > 0

Fallback == lb.strategy = "fallback" /\ lb.n > 0

\* C14: under the parallel strategy the original context differs from what
\* it was when the plugin was called only after the plugin returned true, and
\* then only in response, resolved and metadata.upstream, which are the
\* winner's; in particular the tags, which every clone sees, are those the
\* context had, and each clone holds nothing but what its own handler
\* assigned.
C14_CloneIsolation ==
  Parallel =>
    /\ lb.result # "true" => ctx = lb.ctx0
    /\ lb.result = "true" =>
         \E w \in Upstreams :
           ctx = [lb.ctx0 EXCEPT !.response = subs[w].clone.response,
                                 !.resolved = TRUE,
                                 !.upstream = UpstreamName(w)]
    /\ \A i \in Upstreams :
         subs[i].st \in {"running", "settled"} =>
           subs[i].clone = Assigned(CloneOf(lb.ctx0), subs[i].how, i)

\* Sub-invocation i returned true with its clone resolved before its timer
\* ran.
WonInTime(i) ==
  /\ subs[i].st = "settled"
  /\ subs[i].timer = "cleared"
  /\ subs[i].how \in {"answer", "claim", "setResponse"}
  /\ subs[i].clone.resolved

\* C15: the parallel strategy returns true iff some sub-invocation returned
\* true with its clone resolved before the timeout; then ctx.response is the
\* response of such a sub-invocation, ctx.resolved is true and
\* metadata.upstream names it; when it returns false, ctx.response and
\* ctx.resolved are what they were.
C15_ParallelResult ==
  (Parallel /\ lb.pc = "done") =>
    /\ lb.result = "true" <=> \E i \in Upstreams : WonInTime(i)
    /\ lb.result = "true" =>
         /\ ctx.resolved
         /\ \E w \in Upstreams :
              /\ WonInTime(w)
              /\ ctx.response = subs[w].clone.response
              /\ ctx.upstream = UpstreamName(w)
    /\ lb.result = "false" =>
         /\ ctx.response = lb.ctx0.response
         /\ ctx.resolved = lb.ctx0.resolved

\* C16: once a sub-invocation of the parallel strategy has succeeded, the
\* plugin returns before any time passes, whether or not siblings are still
\* pending, and the response it hands over is that of the sub-invocation
\* that succeeded first.
C16_FirstSuccessJoin ==
  (Parallel /\ lb.first # None) =>
    /\ clock > lb.first[1].at => lb.pc = "done"
    /\ lb.pc = "done" =>
         /\ lb.result = "true"
         /\ ctx.response = subs[lb.first[1].i].clone.response

\* The request was resolved when the handler of upstream i had settled: in
\* the fallback loop all handlers work on ctx, and resolved is never reset.
ResolvedAfter(i) ==
  \/ lb.ctx0.resolved
  \/ \E j \in 1..i : subs[j].how \in {"answer", "answerQuietly", "setResponse"}

\* The handler of upstream i returned true and left the request resolved.
SucceededInTurn(i) ==
  /\ subs[i].st = "settled"
  /\ subs[i].how \in {"answer", "claim", "setResponse"}
  /\ ResolvedAfter(i)

\* Upstream i was tried by the fallback loop and did not succeed: it has no
\* plugin, or its handler raised, returned false, or returned true without
\* the request being resolved.
FailedInTurn(i) ==
  \/ subs[i].st = "missing"
  \/ subs[i].st = "settled" /\ ~SucceededInTurn(i)

\* C17: under the fallback strategy handlers are called one at a time in
\* list order, the handler of an upstream only after every earlier upstream
\* has failed; when a handler succeeds the plugin returns true at once and
\* no later upstream is called; when all fail it returns false.
C17_FallbackOrder ==
  Fallback =>
    /\ \A a, b \in 1..Len(lb.calls) : a < b => lb.calls[a] < lb.calls[b]
    /\ Cardinality({i \in Upstreams : subs[i].st = "running"}) <= 1
    /\ \A i, j \in Upstreams :
         (j < i /\ subs[i].st \in {"running", "settled"}) => FailedInTurn(j)
    /\ \A i \in Upstreams :
         SucceededInTurn(i) =>
           /\ lb.pc = "done" /\ lb.result = "true"
           /\ \A j \in Upstreams : j > i => subs[j].st = "idle"
    /\ lb.pc = "done" =>
         (lb.result = "true" <=> \E i \in Upstreams : SucceededInTurn(i))
    /\ (\A i \in Upstreams : FailedInTurn(i)) =>
         (lb.result # "true" /\ (lb.pc = "done" \/ lb.k = lb.n + 1))

\* The handler of the first upstream raised; the second was called after
\* that and answered.
C17_Witness ==
  /\ Fallback /\ lb.n = 2
  /\ lb.calls = <<1, 2>>
  /\ subs[1].how = "raise"
  /\ subs[2].how = "answer"
  /\ lb.pc = "done" /\ lb.result = "true"
  /\ ctx.response = BodyOf(2) /\ ctx.upstream = UpstreamName(2)

\* C18: the fallback strategy terminates, whatever the handlers do, even if
\* none of them ever settles.
C18_FallbackTerminates == Fallback ~> (lb.pc = "done")

\* C19: the parallel strategy has returned by the time parallel_timeout has
\* passed since it started, whether or not the handlers have settled.
C19_ParallelDeadline ==
  (Parallel /\ clock > PARALLEL_TIMEOUT) => lb.pc = "done"

\* Two handlers never settled: their timers ran when parallel_timeout had
\* passed and the plugin returned false at that instant.
C19_Witness ==
  /\ Parallel /\ lb.n = 2
  /\ clock = PARALLEL_TIMEOUT
  /\ \A i \in Upstreams : subs[i].st = "running" /\ subs[i].timer = "fired"
  /\ lb.pc = "done" /\ lb.result = "false"

\* C21: a reply built for a resolved request whose error holds a response
\* code has status 502 when the code is REFUSED and 500 for every other
\* code, NOERROR included; it is never 200.
C21_ErrorStatus ==
  (pc = "done" /\ reply # None /\ ctx.resolved /\ ctx.error # None) =>
    reply[1].status = IF ctx.error[1] = REFUSED THEN 502 ELSE 500

\* The four accepted forms of a request to /dns-query.
Accepted(req) ==
  \/ req.method = "GET" /\ req.dns # None
  \/ req.method = "GET" /\ req.name
  \/ req.method = "POST" /\ req.contentType = "application/dns-message"
  \/ req.method = "POST" /\ req.contentType = "application/json" /\ req.jsonName

\* C22: for a request to /dns-query that has none of the four accepted
\* forms no context is made, the chain is never executed, and the reply has
\* status 400.
C22_OtherShapesRefused ==
  (request.path = "/dns-query" /\ ~Accepted(request)) =>
    /\ pc = "none"
    /\ hist.calls = <<>>
    /\ reply # None => reply[1].status = 400

\* C23: for every byte string b, the request GET /dns-query?dns=<unpadded
\* base64url of b> is given a context, and that context's dnsMessage holds
\* the bytes b.
C23_DnsParamRoundTrip ==
  \A b \in WorkerMessages :
    (request.method = "GET" /\ request.path = "/dns-query"
       /\ request.dns = Some(arrayBufferToBase64Url(b))) =>
      /\ reply # None => reply[1].status # 400
      /\ pc # "none" => ctx.dnsMessage.bytes = b

\* A matcher step with string patterns and neither a type filter nor
\* inversion.
PlainMatcher(p) ==
  p.type = "matcher" /\ ~p.inverse /\ p.qtype = None /\ p.types = None

Wildcard(pattern) == StartsWith(Chars(pattern), <<"*", ".">>)

\* The documented meaning of a pattern: a bare name matches that name only,
\* and "*.x" matches the names that end with ".x".
Matches(pattern, q) ==
  IF Wildcard(pattern) THEN EndsWith(Chars(q), Slice(Chars(pattern), 1))
  ELSE pattern = q

\* C24: with the chain [matcher(action = reject, rcode), forward], a query
\* that matches ends with ctx.error = rcode, resolved and tagged
\* matcher_rejected, and the forwarder is not invoked; a query that does not
\* match reaches the forwarder with no error set.
C24_BlockedDomain ==
  (pc = "done" /\ Len(plugins) = 2 /\ PlainMatcher(plugins[1])
     /\ plugins[1].action = "reject" /\ plugins[2].type = "forward") =>
    LET m  == plugins[1]
        rc == IF m.rcode = None THEN NXDOMAIN ELSE m.rcode[1]
    IN  IF \E k \in 1..Len(m.patterns) : Matches(m.patterns[k], getQueryDomain(ctx))
        THEN /\ ctx.error = Some(rc)
             /\ ctx.resolved
             /\ hasTag(ctx, "matcher_rejected")
             /\ hist.status[2] # "invoked"
        ELSE /\ hist.status[2] = "invoked"
             /\ ctx.error = None

\* C25: a matcher whose only pattern is a bare name x returns true iff the
\* query name equals x.
C25_BareDomainExact ==
  (Len(plugins) > 0 /\ PlainMatcher(plugins[1]) /\ Len(plugins[1].patterns) = 1
     /\ ~Wildcard(plugins[1].patterns[1]) /\ hist.outcome[1] # "none") =>
    (hist.outcome[1] = "true" <=> getQueryDomain(ctx) = plugins[1].patterns[1])

\* C26: a pattern "*.x" matches a query name exactly when the name ends with
\* "." followed by x, in the matcher and in the domains filter of the
\* response modifier (which returns true for a matching query once a
\* response is present).
C26_WildcardSuffix ==
  /\ (Len(plugins) > 0 /\ PlainMatcher(plugins[1]) /\ Len(plugins[1].patterns) = 1
        /\ Wildcard(plugins[1].patterns[1]) /\ hist.outcome[1] # "none") =>
       (hist.outcome[1] = "true"
          <=> Matches(plugins[1].patterns[1], getQueryDomain(ctx)))
  /\ \A i \in 1..Len(plugins) :
       (plugins[i].type = "response_modifier" /\ Wildcard(plugins[i].domains[1])
          /\ hist.outcome[i] # "none" /\ ctx.response # NullResponse) =>
         (hist.outcome[i] = "true"
            <=> Matches(plugins[i].domains[1], getQueryDomain(ctx)))

\* The query type is excluded by the type or types argument of the step.
TypeExcluded(p, c) ==
  \/ p.qtype # None /\ p.qtype[1] # getQueryType(c)
  \/ p.types # None /\ getQueryType(c) \notin p.types[1]

\* C27: a matcher configured with type or types returns false for a query of
\* another type and leaves the context as it was, whatever the patterns and
\* inverse are.
C27_TypeFilter ==
  (Len(plugins) > 0 /\ plugins[1].type = "matcher" /\ hist.outcome[1] # "none"
     /\ TypeExcluded(plugins[1], ctx)) =>
    /\ hist.outcome[1] = "false"
    /\ hist.resolvedAfter[1] = "no"
    /\ ctx.error = None
    /\ ~hasTag(ctx, "matcher_accepted") /\ ~hasTag(ctx, "matcher_rejected")

\* The addresses of one family in a hosts entry.
OfFamily(ips, v6) == {ips[k] : k \in {j \in 1..Len(ips) : IsIPv6(ips[j]) = v6}}

\* C28: for a hosts entry with addresses of both families, an A query is
\* resolved with an answer for each IPv4 address of the entry and an AAAA
\* query with an answer for each IPv6 address (the synthesized response
\* carries their number); a query of another type returns false and leaves
\* the context as it was.
C28_HostsFamilies ==
  (Len(plugins) > 0 /\ plugins[1].type = "hosts" /\ hist.outcome[1] # "none"
     /\ getQueryDomain(ctx) = "a.com") =>
    IF getQueryType(ctx) \in {A, AAAA}
    THEN /\ hist.outcome[1] = "true"
         /\ ctx.resolved
         /\ ctx.response =
              MockResponses[Cardinality(OfFamily(plugins[1].hosts["a.com"],
                                                 getQueryType(ctx) = AAAA))]
    ELSE /\ hist.outcome[1] = "false"
         /\ hist.resolvedAfter[1] = "no"
         /\ ctx.error = None
         /\ ~hasTag(ctx, "hosts_resolved")

\* Lookup l returns to its caller in this step.
LoadReturns(l) == loads[l].st # "returned" /\ loads'[l].st = "returned"

\* Lookups l and m of the same key both missed and called DATA_KV.get, one
\* of them while the other was suspended in its await.
ConcurrentMisses(l, m) ==
  /\ l # m
  /\ loads[l].family = loads[m].family /\ loads[l].key = loads[m].key
  /\ loads[l].calls = 1 /\ loads[m].calls = 1
  /\ m \in loads[l].inflight \/ l \in loads[m].inflight

\* Both lookups returned value v and the family's cache holds v for the key.
AgreeAndCached(l, m) ==
  LET e == dataCache[loads[l].family][loads[l].key]
  IN  /\ loads[l].result = loads[m].result
      /\ e # None
      /\ e[1].data = loads[l].result[1]

C30_ClearCacheFamily ==
  [][/\ \A type \in ClearTypes :
          ClearCacheCall(type)
          => \A f \in Families, k \in KvKeys :
               dataCache'[f][k] = IF type = "all" \/ type = f THEN None
                                  ELSE dataCache[f][k]
     /\ \A l \in DOMAIN loads :
          LoadStarts(l)
          => LET e == dataCache[loads'[l].family][loads'[l].key]
             IN  /\ e = None
                    => /\ loads'[l].served # "cache"
                       /\ Bound => loads'[l].calls = 1
                 /\ IsFresh(e, now)
                    => /\ loads'[l].served = "cache"
                       /\ loads'[l].calls = 0
                       /\ loads'[l].result = Some(e[1].data)]_vars

\* Lookup l had returned, with its value cached, before lookup m started.
CachedBefore(l, m) ==
  /\ l < m
  /\ loads[l].st = "returned" /\ loads[l].served = "parsed"
  /\ loads[m].st # "new" /\ l \notin loads[m].inflight

\* Entries of two families were cached, one family was cleared, and the next
\* lookup of the cleared key has called DATA_KV.get again while the entry of
\* the other family is still cached.
C30_Witness ==
  \E l1, l2, l3 \in DOMAIN loads :
    /\ CachedBefore(l1, l2) /\ CachedBefore(l2, l3)
    /\ loads[l1].family # loads[l2].family
    /\ loads[l3].family = loads[l2].family /\ loads[l3].key = loads[l2].key
    /\ loads[l3].seen = "absent" /\ loads[l3].calls = 1
    /\ loads[l3].st = "returned"
    /\ dataCache[loads[l1].family][loads[l1].key] # None

\* The query of this state was parsed and an error response built for it.
ErrorBuilt == output # None /\ output[1].fn = "error" /\ output[1].query.ok

\* C31: for every parsed query Q and every response code R in 0..15,
\* parsing the bytes built by buildDnsResponse(Q, {rcode: R}) yields
\* rcode = R, the QR bit set, and the id and the questions of Q; the query's
\* bytes are as they were received.
C31_ErrorResponseShape ==
  ErrorBuilt
  => LET Q == output[1].query
         P == output[1].parsed
     IN  /\ P.rcode = input[1].rcode
         /\ P.flags >= 32768
         /\ P.header = Q.header.id
         /\ P.questions = Q.questions
         /\ Q.buffer = Wire(input[1].message)

\* The message of this state is a response with one question and, right
\* after it, an answer record whose owner name is a pointer to the question's
\* name, and it has been parsed.
PointerAnswerParsed ==
  /\ output # None /\ output[1].fn = "parse"
  /\ LET m == input[1].message
     IN  /\ m.qdcount = 1 /\ Len(m.questions) = 1
         /\ m.ancount = 1 /\ Len(m.answers) = 1
         /\ SubSeq(m.answers[1], 1, 2) = PointerToQuestion

\* C32: for a response whose answer record's name is a backward compression
\* pointer to the question name, parseDnsResponse returns that answer with
\* a name equal to the question's name.
C32_PointerToQuestionName ==
  PointerAnswerParsed
  => LET P == output[1].parsed
     IN  /\ Len(P.questions) = 1 /\ Len(P.answers) = 1
         /\ P.answers[1].name = P.questions[1].name

\* Bit i (1 is the top bit, 32 the last) of an address.
AddressBit(ip, i) == (ip[(i - 1) \div 8 + 1] \div Pow2(7 - ((i - 1) % 8))) % 2

\* C33: for all IPv4 addresses ip and range and every prefix length n in
\* 0..32, ipInCidr(ip, range/n) is true iff ip and range agree on their top n
\* bits; /0 contains every address and /32 only the address itself.
C33_CidrTopBits ==
  output # None
  => (output[1] <=> \A i \in 1..input[1].bits :
                      AddressBit(input[1].ip, i) = AddressBit(input[1].range, i))

\* An upload has completed: DATA_KV.put resolved and clearCache has run for
\* every uploaded file.
UploadCompleted == uploads.count > 0 /\ uploads.clearing = {}

\* C34: once an upload of key K has completed (DATA_KV.put followed by
\* clearCache of K's family), a lookup of K that starts afterwards and is
\* answered from the cache returns the uploaded content, also when another
\* lookup of K was in flight while the upload ran.
C34_UploadVisible ==
  [][\A l \in Loads :
       (/\ LoadStarts(l) /\ UploadCompleted
        /\ loads'[l].family = FileTypeOf(loads'[l].key)
        /\ loads'[l].served = "cache")
       => loads'[l].result = Some(Parse(loads'[l].family, KvValue(loads'[l].key)))]_vars

\* C35: execute completes and returns ctx whatever a handler does: when a
\* handler raises an Error, or a value that has no message (a string,
\* undefined or null), execute does not fail, metadata.errors holds one
\* entry for that step, and the loop goes on to the next step.
C35_RaiseNeverFailsExecute ==
  /\ pc # "failed"
  /\ \A i \in Steps :
       Raised(hist.outcome[i]) =>
         /\ Cardinality({k \in 1..Len(ctx.errors) :
                           ctx.errors[k].plugin = plugins[i].tag}) = 1
         /\ (Finished /\ i < Len(plugins)) => hist.status[i + 1] # "unreached"

\* C36: buildResponse returns HTTP 200 only when ctx.response holds response
\* bytes: a context that is resolved with neither a response nor an error, or
\* whose only outcome is setError(NOERROR), never yields a 200.
C36_OkHasResponse ==
  (pc = "done" /\ reply # None /\ reply[1].status = 200) => ctx.response # NullResponse

\* The promise of put call p is rejected in this step.
PutRejects(p) ==
  /\ p \in pendingPuts /\ p \notin pendingPuts'
  /\ p \in hist'.rejectedPuts /\ p \notin hist.rejectedPuts

\* Some step of this request called setResponse with bytes b and returned
\* true, leaving the request resolved.
ReturnedTrueWith(b) ==
  \E i \in Steps :
    /\ plugins[i].type \in {"forward", "cache"}
    /\ hist.outcome[i] = "true" /\ hist.resolvedAfter[i] = "yes"
    /\ ctx.response = b

\* C37: a failure of the cache backend's put made by the write-through hook
\* does not change the request's outcome: the context is left as it was (no
\* upstreamError is recorded), the results of the steps and the position of
\* the chain stay, and for a put of the request at hand the plugin that
\* called setResponse has returned true, ctx.response is set and
\* ctx.resolved is true.
C37_PutFailureHarmless ==
  [][\A p \in pendingPuts :
       PutRejects(p)
       => /\ ctx' = ctx /\ pc' = pc /\ idx' = idx
          /\ hist'.outcome = hist.outcome
          /\ p \in hist.puts
             => /\ ctx'.resolved /\ ctx'.response = p.body
                /\ ReturnedTrueWith(p.body)']_vars

\* The put of a request that the forwarder answered after a cache miss was
\* rejected, and the request is finished.
C37_Witness ==
  /\ pc = "done"
  /\ \E p \in hist.rejectedPuts \cap hist.puts :
       /\ ReturnedTrueWith(p.body) /\ ctx.resolved
       /\ ctx.upstreamError = Undefined
       /\ cacheStore[p.key] = None

\* Lookup l looks up the key of lookup m.
SameKey(m, l) == loads[m].family = loads[l].family /\ loads[m].key = loads[l].key

\* Lookup m failed (DATA_KV.get rejected and the catch block returned the
\* empty value), and l is the next lookup of the same key: the first one
\* that started after m had returned.
NextAfterFailed(m, l) ==
  /\ m < l
  /\ loads[m].served = "failed"
  /\ loads[l].st # "new"
  /\ SameKey(m, l)
  /\ m \notin loads[l].inflight
  /\ \A j \in (m + 1)..(l - 1) : SameKey(m, j) => m \in loads[j].inflight

\* Lookup l called DATA_KV.get and, when the call resolved, returned what
\* it parsed from the text the call gave.
GetsAgain(l) ==
  /\ loads[l].calls = 1
  /\ loads[l].served # "cache"
  /\ (loads[l].st = "returned" /\ loads[l].served # "failed")
     => /\ loads[l].served = "parsed"
        /\ loads[l].result = Some(Parse(loads[l].family, loads[l].text))

\* C38 (as stated): a KV failure is not cached: after a lookup of key K
\* failed and returned the empty value, the next lookup of K calls
\* DATA_KV.get again and, if that call succeeds, returns the parsed content
\* rather than the empty value.
C38_FailureNotCached ==
  \A m, l \in DOMAIN loads : NextAfterFailed(m, l) => GetsAgain(l)

\* A lookup of the key of m that was in flight together with m (suspended
\* when m started, or started while m was suspended) has resumed, cached
\* what it parsed and returned before l started.
OverlappingCached(m, l) ==
  \E j \in DOMAIN loads \ {m, l} :
    /\ loads[j].st = "returned" /\ loads[j].served = "parsed"
    /\ SameKey(m, j)
    /\ j \in loads[m].inflight \/ m \in loads[j].inflight
    /\ j < l /\ j \notin loads[l].inflight

\* C38 (amended): after a lookup of key K failed and returned the empty
\* value, the next lookup of K calls DATA_KV.get again and, if that call
\* succeeds, returns the parsed content rather than the empty value, unless
\* a lookup of K that was in flight together with the failed one has
\* succeeded and cached its result in the meantime.
C38_FailureNotCachedAlone ==
  \A m, l \in DOMAIN loads :
    (NextAfterFailed(m, l) /\ ~OverlappingCached(m, l)) => GetsAgain(l)

\* A lookup failed, and the next lookup of its key read the stored file and
\* returned its entries.
C38_Witness ==
  \E m, l \in DOMAIN loads :
    /\ NextAfterFailed(m, l) /\ ~OverlappingCached(m, l)
    /\ loads[l].st = "returned" /\ loads[l].served = "parsed"
    /\ loads[l].result # Some(LoadFailed(loads[l].family))

\* The hosts step, with passThrough = false, found an entry for the queried
\* name that has no address of the requested family, and returned.
HostsNoData ==
  /\ Len(plugins) > 0 /\ plugins[1].type = "hosts" /\ ~plugins[1].passThrough
  /\ hist.outcome[1] # "none"
  /\ getQueryType(ctx) \in {A, AAAA}
  /\ normalizeDomain(getQueryDomain(ctx)) \in DOMAIN plugins[1].hosts
  /\ OfFamily(plugins[1].hosts[normalizeDomain(getQueryDomain(ctx))],
              getQueryType(ctx) = AAAA) = {}

\* C39: with passThrough = false, when the hosts entry for the queried name
\* has no address of the requested family, the hosts plugin finishes the
\* request as NODATA: it returns true with ctx.error = NOERROR, no later
\* step (such as forward) is invoked, and the context never holds an
\* upstream answer.
C39_HostsNoDataFinishes ==
  HostsNoData =>
    /\ hist.outcome[1] = "true"
    /\ ctx.error = Some(0)
    /\ \A i \in 2..Len(plugins) : hist.status[i] # "invoked"
    /\ hist.forwarded = NullResponse

\* C40: for concurrent requests through [cache, forward] with different
\* (domain, type) pairs, every write-through put stores under key
\* dns-<d>-<t> only bytes that were set as the response of a request for
\* (d, t): each put made for a request carries the key of the pair that
\* request asked for and the bytes of that request's response, and no
\* request causes a put under the key of another request in flight.
C40_PutsUnderOwnKey ==
  \A r \in DOMAIN concurrent :
    \A p \in concurrent[r].puts :
      /\ p.key = <<"dns", Asked(r)[1], Asked(r)[2]>>
      /\ p.body = concurrent[r].ctx.response
      /\ \A o \in DOMAIN concurrent \ {r} :
           p.key # <<"dns", Asked(o)[1], Asked(o)[2]>>

\* The same, for requests that all carry a JSON query.
JsonPutsUnderOwnKey ==
  (\A r \in DOMAIN concurrent : concurrent[r].ctx.query.json)
  => C40_PutsUnderOwnKey

====
